---- MODULE Spec2Model ----
(***************************************************************************)
(* Model of the krystal-web-ui-tester Playwright suite: the wallet-mock    *)
(* setup helpers, the page objects (vault list, vault detail), the         *)
(* screenshot helper and the test scenarios that sequence them.            *)
(*                                                                         *)
(* The suite is pure orchestration over a browser page, so the page (the   *)
(* application under test) is the environment: what is visible, whether a  *)
(* click succeeds and when the page closes are nondeterministic choices.   *)
(* Every await of the code is one step of the model.                       *)
(*                                                                         *)
(* The module holds several scenarios, one specification each; a scenario  *)
(* leaves the variables of the other scenarios unchanged.                  *)
(***************************************************************************)
EXTENDS Integers, Sequences, FiniteSets, TLC

(***************************************************************************)
(* Scenario "setup": one worker process runs vaultBasic.spec.ts with the   *)
(* click-driven setupWalletConnection (module-level flag                   *)
(* isWalletConnected): beforeAll on a throw-away page, then beforeEach on  *)
(* the test page.                                                          *)
(***************************************************************************)
VARIABLES
    isWalletConnected,  \* module-level flag of setupWallet
    initScript,         \* page -> the mock provider init script is registered
    pageOpen,           \* page -> the page exists and is not closed
    pageUrl,            \* page -> "blank" | "base"
    connectVisible,     \* page -> index of the first visible connect selector, 0 = none
    addressShown,       \* page -> a wallet address indicator is visible
    hook,               \* "beforeAll" | "beforeEach" | "test" | "failed"
    swcPc,              \* position inside setupWalletConnection
    swcPage,            \* its page argument
    swcSel,             \* index of the selector the scan loop is at
    swcElapsed,         \* ms since startTime in waitForWalletConnected
    returnedFor,        \* pages for which setupWalletConnection returned normally
    flagSeen            \* the flag was set while no address indicator was visible

(***************************************************************************)
(* Scenario "detail": the VaultDetailPage operations, takeScreenshot, and  *)
(* the vault detail test that sequences them behind Promise.race timeouts. *)
(***************************************************************************)
VARIABLES
    dClosed,            \* page.isClosed() of the page the page object wraps
    opPc,               \* operation -> position inside it ("idle", "done", "threw", or a label)
    opI,                \* operation -> index of its current loop
    closedAtCall,       \* operation -> the page was closed when it was called
    issued,             \* operation -> it issued a page action since it was called
    issuedOnClosed,     \* operation -> it issued a page action on a closed page
    lastShot,           \* what the latest takeScreenshot call did
    tPc,                \* position of the test body
    tOp,                \* index in RaceOps of the step the test is at
    clickOk,            \* the click on the vault element succeeded
    tResult             \* "running" | "passed" | "returned" | "failed"

(***************************************************************************)
(* Scenario "provider": the injected mock window.ethereum object.          *)
(***************************************************************************)
VARIABLES
    provKind,           \* "stateless" | "stateful": which mock the init script built
    selectedAddress,    \* window.ethereum.selectedAddress
    walletCallbacks,    \* window.ethereum._walletCallbacks.accountsChanged
    lastMethod,         \* method of the latest request() call
    lastResult,         \* what it resolved to
    delivered,          \* callback -> notifications the latest connectWallet gave it
    lastCall            \* the latest call on the provider: its name, its arguments
                        \* and the callback list it found

(***************************************************************************)
(* Scenario "load": the page-load test and the whitelist verification.     *)
(***************************************************************************)
VARIABLES
    ltVariant,          \* "plain" | "whitelist": does the test verify the whitelist first
    ltPc,               \* position in the test body
    ltOutcome,          \* "none" | "running" | "passed" | "failed" | "skipped"
    whitelistVerified,  \* "unset" | "true" | "false": what verifyWalletWhitelist returned
    requiresRealWallet, \* the value page.evaluate computed
    wlTicks,            \* observation points passed while the race is pending
    wlMessage,          \* page shows a whitelist / access denied element or text
    connectAttached,    \* a Connect Wallet button is attached
    contentAttached,    \* .vault-content, .portfolio-section or .vault-item is attached
    everConnected,      \* somebody connected a wallet
    titleHasVaults,     \* the page title contains 'Vaults'
    addressDisplayed    \* the shortened test address is on the page

(***************************************************************************)
(* Scenario "sort": sortByAPR and the comparison test.                     *)
(***************************************************************************)
VARIABLES
    sbVariant,          \* "double" | "single": which sortByAPR the page object has
    vaultAprs,          \* APR of each row, in the page's default order
    aprVisible,         \* selector index -> its first match is visible
    sortState,          \* "unsorted" | "asc" | "desc": the order shown
    sbPc,               \* position in sortByAPR
    sbI,                \* index into SELECTORS.APR_HEADER
    sbClicks,           \* selector indexes clicked by the current call
    sbWaits,            \* waitForTimeout calls of the current call
    cmpPc,              \* position in the comparison test
    cmpI,               \* loop variable i
    cmpOpened,          \* [index, position] of each vault row clicked
    cmpOutcome          \* "none" | "running" | "passed" | "failed"

(***************************************************************************)
(* Scenario "list": VaultListPage.findFirstVault and                       *)
(* clickFirstDepositButton.                                                *)
(***************************************************************************)
VARIABLES
    vlMatches,          \* selector index -> number of elements it matches
    vlType,             \* "public" | "private" | "none": type text of the first row
    vlEnabled,          \* the first row's Deposit button is enabled
    ffPc,               \* position in findFirstVault
    ffI,                \* index into vaultSelectors
    ffConsulted,        \* selector indexes queried by the current call, in order
    ffResult,           \* [selector, element] returned; [0, 0] is null
    cdPc,               \* position in clickFirstDepositButton
    cdIsPublic,         \* local isPublic
    cdClicked,          \* the call clicked the Deposit button
    cdVerifiedDisabled  \* the call took the private-vault branch

listVars == <<vlMatches, vlType, vlEnabled, ffPc, ffI, ffConsulted, ffResult,
              cdPc, cdIsPublic, cdClicked, cdVerifiedDisabled>>

(***************************************************************************)
(* Scenario "shots": the files takeScreenshot writes during one run.       *)
(***************************************************************************)
VARIABLES
    shVariant,          \* "plain" (name.png) | "stamped" (name-HHMMSS.png)
    shNowMs,            \* the wall clock, milliseconds since the run's midnight
    shFiles,            \* paths present in the screenshots directory
    shTaken             \* captures written by takeScreenshot in this run

shotVars == <<shVariant, shNowMs, shFiles, shTaken>>

(***************************************************************************)
(* Scenario "form": the principal-token step and the publish-toggle step   *)
(* of the create-vault test.                                               *)
(***************************************************************************)
VARIABLES
    fmTokenVariant,     \* "single" (one option selector) | "multi" (selector lists)
    fmToggleVariant,    \* "three" | "restore" | "plain": which publish-toggle step
    fmPc,               \* position in the test
    token,              \* the principal token the form shows as selected
    tokenText,          \* local tokenText, read when the step starts
    usdcFound,          \* the dropdown has an element the USDC option selector matches
    wethFound,          \* same for the WETH option
    tkDone,             \* the principal-token step has completed
    toggleOn,           \* state of the Publish Vault toggle
    toggleAtStart,      \* its state when the publish-toggle step started
    labelFound,         \* TOGGLE_LABEL matches an element
    checkboxFound,      \* the switch's checkbox input exists
    switchFound,        \* .chakra-switch exists
    tgActivations       \* clicks that reached the toggle during the step

formVars == <<fmTokenVariant, fmToggleVariant, fmPc, token, tokenText, usdcFound,
              wethFound, tkDone, toggleOn, toggleAtStart, labelFound, checkboxFound,
              switchFound, tgActivations>>

(***************************************************************************)
(* Scenario "wallet": setupWallet and verifyWalletConnected.               *)
(***************************************************************************)
VARIABLES
    swPc,               \* position in setupWallet
    swRound,            \* 1 | 2: which connect-and-verify round is running
    swConnectCalls,     \* calls of connectWallet made by setupWallet
    swVerify1,          \* "unset" | "true" | "false": first verifyWalletConnected result
    swVerify2,          \* same for the second
    wvI,                \* index into SELECTORS.WALLET_ADDRESS
    wvShown,            \* "none" | "test" | "other": the wallet address the page shows
    wvHeaderButton      \* header / nav has a visible button without "Connect" in it

walletVars == <<swPc, swRound, swConnectCalls, swVerify1, swVerify2, wvI, wvShown,
                wvHeaderButton>>

(***************************************************************************)
(* Scenario "details": processVaultDetails of vaults.spec.ts               *)
(* (lines 253-389) and the loop that calls it.                             *)
(***************************************************************************)
VARIABLES
    pvRows,         \* vaultRows.length in the calling test
    pvIndex,        \* index argument of the current call
    pvPc,           \* position inside processVaultDetails
    pvI,            \* position inside the selector / section loop under way
    pvWentBack,     \* page.goto(VAULTS_URL) was issued in the current call
    pvCheckRaised,  \* a detail check of the current call raised
    pvChartFound,   \* chartFound
    pvError         \* the awaited call whose error ended the current call

pvdVars == <<pvRows, pvIndex, pvPc, pvI, pvWentBack, pvCheckRaised, pvChartFound,
            pvError>>

(***************************************************************************)
(* Scenario "global": globalSetup and the setupWalletConnection it calls   *)
(* (part_009), which a test may also call on a page that is loaded.        *)
(***************************************************************************)
VARIABLES
    gsCaller,       \* "globalSetup" | "test": who calls setupWalletConnection
    gsPc,           \* position inside globalSetup / setupWalletConnection
    gsBrowser,      \* "none" | "open" | "closed": the browser globalSetup launched
    gsError,        \* the call whose error ended the caller, "none" if none
    gsSetupFailed,  \* setupWalletConnection raised
    gsConnect,      \* index of the first visible connect selector, 0 = none
    gsAddress,      \* a wallet address indicator is visible
    gsSel,          \* index of the connect selector the scan is at
    gsElapsed,      \* ms since startTime in waitForWalletConnected
    gsWaitExit      \* "none" | "found" | "deadline" | "caught"

globalVars == <<gsCaller, gsPc, gsBrowser, gsError, gsSetupFailed, gsConnect, gsAddress,
                gsSel, gsElapsed, gsWaitExit>>

(***************************************************************************)
(* Scenario "connect": connectWallet of setupWallet.ts in its two          *)
(* variants, the one that writes the address into window.ethereum          *)
(* ("injection", lines 398-528) and the one that clicks and then verifies  *)
(* ("button", lines 125-186).                                              *)
(***************************************************************************)
VARIABLES
    cwVariant,      \* "injection" | "button"
    cwPc,           \* position inside connectWallet
    cwI,            \* index of the selector the loop under way is at
    cwButton,       \* index of the first visible Connect Wallet selector, 0 = none
    cwProvider,     \* index of the first visible provider option selector, 0 = none
    cwAnyOption,    \* the fallback locator of line 455 matches a visible element
    cwHasEthereum,  \* window.ethereum exists
    cwSelected,     \* window.ethereum.selectedAddress
    cwShown,        \* a wallet address indicator is visible
    cwFound,        \* local connectWalletButton / buttonClicked: selector found, 0 = none
    cwClicks,       \* clicks the call made that reached an element
    cwCaught,       \* an error of step 1 or 2 was caught inside the call
    cwIsConnected,  \* "unset" | "true" | "false": what isWalletConnected returned
    cwVerified,     \* verifyWalletConnected passed in this call
    cwOutcome       \* "none" | "returned" | the message of the error raised

connectVars == <<cwVariant, cwPc, cwI, cwButton, cwProvider, cwAnyOption, cwHasEthereum,
                 cwSelected, cwShown, cwFound, cwClicks, cwCaught, cwIsConnected,
                 cwVerified, cwOutcome>>

setupVars == <<isWalletConnected, initScript, pageOpen, pageUrl, connectVisible,
               addressShown, hook, swcPc, swcPage, swcSel, swcElapsed,
               returnedFor, flagSeen>>

opVars == <<dClosed, opPc, opI, closedAtCall, issued, issuedOnClosed, lastShot>>

testVars == <<tPc, tOp, clickOk, tResult>>

provVars == <<provKind, selectedAddress, walletCallbacks, lastMethod, lastResult,
              delivered, lastCall>>

loadVars == <<ltVariant, ltPc, ltOutcome, whitelistVerified, requiresRealWallet,
              wlTicks, wlMessage, connectAttached, contentAttached, everConnected,
              titleHasVaults, addressDisplayed>>

sortVars == <<sbVariant, vaultAprs, aprVisible, sortState, sbPc, sbI, sbClicks,
              sbWaits, cmpPc, cmpI, cmpOpened, cmpOutcome>>

vars == <<setupVars, opVars, testVars, provVars, loadVars, sortVars, listVars,
              shotVars, formVars, walletVars, pvdVars, globalVars, connectVars>>

notSetupVars == <<opVars, testVars, provVars, loadVars, sortVars, listVars, shotVars,
              formVars, walletVars, pvdVars, globalVars, connectVars>>

notDetailVars == <<setupVars, provVars, loadVars, sortVars, listVars, shotVars,
              formVars, walletVars, pvdVars, globalVars, connectVars>>

Pages == {"setupPage", "testPage"}

\* WALLET.CONNECT_BUTTON_SELECTORS has six entries
NConnectSelectors == 6

\* waitForWalletConnected: const timeout = 10000
WaitDeadlineMs == 10000

\* waitForWalletConnected: await page.waitForTimeout(500)
WaitPollMs == 500

SetupIdle ==
    /\ isWalletConnected = FALSE
    /\ initScript = [p \in Pages |-> FALSE]
    /\ pageOpen = [p \in Pages |-> FALSE]
    /\ pageUrl = [p \in Pages |-> "blank"]
    /\ connectVisible = [p \in Pages |-> 0]
    /\ addressShown = [p \in Pages |-> FALSE]
    /\ hook = "beforeAll"
    /\ swcPc = "idle"
    /\ swcPage = "setupPage"
    /\ swcSel = 1
    /\ swcElapsed = 0
    /\ returnedFor = {}
    /\ flagSeen = FALSE

\* test.beforeAll: const page = await browser.newPage(); setupWalletConnection(page)
BeforeAll ==
    /\ hook = "beforeAll" /\ swcPc = "idle"
    /\ pageOpen' = [pageOpen EXCEPT !["setupPage"] = TRUE]
    /\ swcPage' = "setupPage"
    /\ swcPc' = "check"
    /\ UNCHANGED <<isWalletConnected, initScript, pageUrl, connectVisible,
                   addressShown, hook, swcSel, swcElapsed, returnedFor, flagSeen>>
    /\ UNCHANGED notSetupVars

\* test.beforeEach: setupWalletConnection(page) on the test's own page
BeforeEach ==
    /\ hook = "beforeEach" /\ swcPc = "idle"
    /\ pageOpen' = [pageOpen EXCEPT !["testPage"] = TRUE]
    /\ swcPage' = "testPage"
    /\ swcPc' = "check"
    /\ UNCHANGED <<isWalletConnected, initScript, pageUrl, connectVisible,
                   addressShown, hook, swcSel, swcElapsed, returnedFor, flagSeen>>
    /\ UNCHANGED notSetupVars

\* if (isWalletConnected) return;
SwcSkipsWhenFlagSet == isWalletConnected

SwcCheckFlag ==
    /\ swcPc = "check"
    /\ swcPc' = IF SwcSkipsWhenFlagSet THEN "returned" ELSE "inject"
    /\ UNCHANGED <<isWalletConnected, initScript, pageOpen, pageUrl, connectVisible,
                   addressShown, hook, swcPage, swcSel, swcElapsed, returnedFor,
                   flagSeen>>
    /\ UNCHANGED notSetupVars

\* await injectMockProvider(page): page.addInitScript(mock), page.addInitScript(web3)
injectMockProvider ==
    /\ swcPc = "inject"
    /\ initScript' = [initScript EXCEPT ![swcPage] = TRUE]
    /\ swcPc' = "goto"
    /\ UNCHANGED <<isWalletConnected, pageOpen, pageUrl, connectVisible,
                   addressShown, hook, swcPage, swcSel, swcElapsed, returnedFor,
                   flagSeen>>
    /\ UNCHANGED notSetupVars

\* if (!currentUrl || currentUrl === 'about:blank') { goto('/'); waitForLoadState }
\* the loaded page shows a connect button under one of the selectors, or none,
\* and may already show the address; the navigation may fail (outside the try)
SwcGoto ==
    /\ swcPc = "goto"
    /\ \/ /\ pageUrl[swcPage] = "blank"
          /\ \E c \in 0..NConnectSelectors, a \in BOOLEAN :
                /\ connectVisible' = [connectVisible EXCEPT ![swcPage] = c]
                /\ addressShown' = [addressShown EXCEPT ![swcPage] = a]
          /\ pageUrl' = [pageUrl EXCEPT ![swcPage] = "base"]
          /\ swcPc' = "shot"
       \/ /\ pageUrl[swcPage] = "blank"
          /\ swcPc' = "thrown"
          /\ UNCHANGED <<connectVisible, addressShown, pageUrl>>
       \/ /\ pageUrl[swcPage] # "blank"
          /\ swcPc' = "shot"
          /\ UNCHANGED <<connectVisible, addressShown, pageUrl>>
    /\ UNCHANGED <<isWalletConnected, initScript, pageOpen, hook, swcPage, swcSel,
                   swcElapsed, returnedFor, flagSeen>>
    /\ UNCHANGED notSetupVars

\* await takeWalletConnectionScreenshot(page, 'before-connection'): not guarded
SwcShotBefore ==
    /\ swcPc = "shot"
    /\ \E ok \in BOOLEAN : swcPc' = IF ok THEN "scan" ELSE "thrown"
    /\ swcSel' = 1
    /\ UNCHANGED <<isWalletConnected, initScript, pageOpen, pageUrl, connectVisible,
                   addressShown, hook, swcPage, swcElapsed, returnedFor, flagSeen>>
    /\ UNCHANGED notSetupVars

\* for (const selector of WALLET.CONNECT_BUTTON_SELECTORS)
\*   if (await connectButton.isVisible(...)) { await connectButton.click(); ...
\* the click may throw: caught and rethrown as 'Failed to connect wallet'
SwcScan ==
    /\ swcPc = "scan"
    /\ IF swcSel > NConnectSelectors
         THEN swcPc' = "verify" /\ UNCHANGED swcSel
         ELSE IF connectVisible[swcPage] = swcSel
                THEN /\ \E ok \in BOOLEAN : swcPc' = IF ok THEN "dialog" ELSE "thrown"
                     /\ UNCHANGED swcSel
                ELSE swcSel' = swcSel + 1 /\ UNCHANGED swcPc
    /\ UNCHANGED <<isWalletConnected, initScript, pageOpen, pageUrl, connectVisible,
                   addressShown, hook, swcPage, swcElapsed, returnedFor, flagSeen>>
    /\ UNCHANGED notSetupVars

\* await handleWalletConnectionDialog(page): its errors are swallowed; the
\* application may or may not react to the click by showing the address
handleWalletConnectionDialog ==
    /\ swcPc = "dialog"
    /\ \E a \in BOOLEAN :
          addressShown' = [addressShown EXCEPT ![swcPage] = addressShown[swcPage] \/ a]
    /\ swcElapsed' = 0
    /\ swcPc' = "wait"
    /\ UNCHANGED <<isWalletConnected, initScript, pageOpen, pageUrl, connectVisible,
                   hook, swcPage, swcSel, returnedFor, flagSeen>>
    /\ UNCHANGED notSetupVars

\* while (Date.now() - startTime < timeout) {
\*   for (selector of addressSelectors) if visible return;
\*   await page.waitForTimeout(500); }
\* one step is one iteration; the address may appear during the sleep
waitForWalletConnected ==
    /\ swcPc = "wait"
    /\ IF swcElapsed < WaitDeadlineMs
         THEN IF addressShown[swcPage]
                THEN swcPc' = "mark" /\ UNCHANGED <<swcElapsed, addressShown>>
                ELSE /\ swcElapsed' = swcElapsed + WaitPollMs
                     /\ \E a \in BOOLEAN :
                           addressShown' = [addressShown EXCEPT ![swcPage] = a]
                     /\ UNCHANGED swcPc
         ELSE swcPc' = "mark" /\ UNCHANGED <<swcElapsed, addressShown>>
    /\ UNCHANGED <<isWalletConnected, initScript, pageOpen, pageUrl, connectVisible,
                   hook, swcPage, swcSel, returnedFor, flagSeen>>
    /\ UNCHANGED notSetupVars

\* isWalletConnected = true; (after waitForWalletConnected, whatever it saw)
SwcMarkConnected ==
    /\ swcPc = "mark"
    /\ isWalletConnected' = TRUE
    /\ flagSeen' = (flagSeen \/ ~addressShown[swcPage])
    /\ swcPc' = "shotAfter"
    /\ UNCHANGED <<initScript, pageOpen, pageUrl, connectVisible, addressShown,
                   hook, swcPage, swcSel, swcElapsed, returnedFor>>
    /\ UNCHANGED notSetupVars

\* await takeWalletConnectionScreenshot(page, 'after-connection'); return;
\* inside the try: a failure is rethrown as 'Failed to connect wallet'
SwcShotAfter ==
    /\ swcPc = "shotAfter"
    /\ \E ok \in BOOLEAN : swcPc' = IF ok THEN "returned" ELSE "thrown"
    /\ UNCHANGED <<isWalletConnected, initScript, pageOpen, pageUrl, connectVisible,
                   addressShown, hook, swcPage, swcSel, swcElapsed, returnedFor,
                   flagSeen>>
    /\ UNCHANGED notSetupVars

\* const isConnected = await verifyWalletConnected(page);
\* if (isConnected) { isWalletConnected = true; return; }  console.warn(...)
SwcVerify ==
    /\ swcPc = "verify"
    /\ isWalletConnected' = (isWalletConnected \/ addressShown[swcPage])
    /\ swcPc' = "returned"
    /\ UNCHANGED <<initScript, pageOpen, pageUrl, connectVisible, addressShown,
                   hook, swcPage, swcSel, swcElapsed, returnedFor, flagSeen>>
    /\ UNCHANGED notSetupVars

\* setupWalletConnection returned normally: beforeAll closes its page (finally)
\* and the worker goes on to beforeEach; beforeEach hands over to the test body
SwcReturn ==
    /\ swcPc = "returned"
    /\ returnedFor' = returnedFor \cup {swcPage}
    /\ swcPc' = "idle"
    /\ IF hook = "beforeAll"
         THEN /\ pageOpen' = [pageOpen EXCEPT !["setupPage"] = FALSE]
              /\ hook' = "beforeEach"
         ELSE /\ hook' = "test"
              /\ UNCHANGED pageOpen
    /\ UNCHANGED <<isWalletConnected, initScript, pageUrl, connectVisible,
                   addressShown, swcPage, swcSel, swcElapsed, flagSeen>>
    /\ UNCHANGED notSetupVars

\* setupWalletConnection threw: the hook fails (beforeAll still closes its page)
SwcThrow ==
    /\ swcPc = "thrown"
    /\ swcPc' = "idle"
    /\ hook' = "failed"
    /\ pageOpen' = [pageOpen EXCEPT ![swcPage] = FALSE]
    /\ UNCHANGED <<isWalletConnected, initScript, pageUrl, connectVisible,
                   addressShown, swcPage, swcSel, swcElapsed, returnedFor, flagSeen>>
    /\ UNCHANGED notSetupVars

(***************************************************************************)
(* VaultDetailPage (page-objects/VaultDetailPage.ts, the guarded variant)  *)
(* and takeScreenshot.                                                     *)
(*                                                                         *)
(* `await this.isPageAvailable()` resolves without leaving the microtask   *)
(* queue, and a page closes only on a message from the browser, so a guard *)
(* and the page action that follows it are one step.  A page action may    *)
(* find the page closing while it is in flight: it then fails, which a     *)
(* `.catch` turns into a default result and which otherwise raises.        *)
(***************************************************************************)
Ops == {"waitForDetailPageLoad", "verifyPerformanceChart", "verifyAssetsSection",
        "verifyStrategySettings", "verifyDepositWithdraw", "verifyRiskWarning"}

\* the order in which the vault detail test runs the verification operations
RaceOps == <<"verifyPerformanceChart", "verifyAssetsSection", "verifyStrategySettings",
             "verifyDepositWithdraw", "verifyRiskWarning">>

\* SELECTORS.PERFORMANCE, SELECTORS.TIME_PERIODS, SELECTORS.CHART,
\* SELECTORS.ASSETS, SELECTORS.STRATEGY, riskWarningSelectors
NPerformance == 4
NTimePeriods == 3
NChart == 4
NAssets == 3
NStrategy == 3
NRiskWarning == 3

\* at most this many operations that lost their Promise.race keep running
\* behind the test at the same time
MaxBackground == 1

Finished(op) == opPc[op] \in {"idle", "done", "threw"}

Running(op) == ~Finished(op)

IsPageAvailableAlways == TRUE

\* private async isPageAvailable(): return !this.page.isClosed()
isPageAvailable == ~dClosed

takeScreenshotUnguarded(closed, captureOk) ==
    [closed |-> closed, attempted |-> TRUE, captured |-> ~closed /\ captureOk,
     failed |-> closed \/ ~captureOk, warned |-> FALSE, raised |-> closed \/ ~captureOk]

\* takeScreenshot(page, name): try { if (page.isClosed()) { warn; return; }
\*   await page.screenshot(...) } catch (error) { console.warn(...) }
takeScreenshot(closed, captureOk) ==
    [closed |-> closed, attempted |-> ~closed, captured |-> ~closed /\ captureOk,
     failed |-> ~closed /\ ~captureOk, warned |-> closed \/ ~captureOk, raised |-> FALSE]

NoShot == [closed |-> FALSE, attempted |-> FALSE, captured |-> FALSE,
           failed |-> FALSE, warned |-> FALSE, raised |-> FALSE]

\* one step of an operation: it moves to pc2 (loop index i2); acted says that the
\* step issued a page action, closes that the page closed while it was in flight
Tick(op, pc2, i2, acted, closes) ==
    /\ opPc' = [opPc EXCEPT ![op] = pc2]
    /\ opI' = [opI EXCEPT ![op] = i2]
    /\ issued' = [issued EXCEPT ![op] = @ \/ acted]
    /\ issuedOnClosed' = [issuedOnClosed EXCEPT ![op] = @ \/ (acted /\ dClosed)]
    /\ dClosed' = (dClosed \/ closes)
    /\ UNCHANGED closedAtCall

Quiet == UNCHANGED lastShot

\* if (!await this.isPageAvailable()) <leave>;  x = await locator.isVisible().catch(() => false)
GuardedVisible(op, closedPc, closedI, yesPc, yesI, noPc, noI) ==
    /\ Quiet
    /\ IF ~isPageAvailable
         THEN Tick(op, closedPc, closedI, FALSE, FALSE)
         ELSE \/ Tick(op, yesPc, yesI, TRUE, FALSE)
              \/ Tick(op, noPc, noI, TRUE, FALSE)
              \/ Tick(op, noPc, noI, TRUE, TRUE)

\* x = await locator.isVisible().catch(() => false), with no guard before it
UnguardedVisible(op, yesPc, yesI, noPc, noI) ==
    /\ Quiet
    /\ IF dClosed
         THEN Tick(op, noPc, noI, TRUE, FALSE)
         ELSE \/ Tick(op, yesPc, yesI, TRUE, FALSE)
              \/ Tick(op, noPc, noI, TRUE, FALSE)
              \/ Tick(op, noPc, noI, TRUE, TRUE)

\* guard, then a page action whose failure is caught (click().catch, evaluate().catch,
\* or one inside a try block): the operation goes on either way
GuardedCaught(op, closedPc, closedI, nextPc, nextI) ==
    /\ Quiet
    /\ IF ~isPageAvailable
         THEN Tick(op, closedPc, closedI, FALSE, FALSE)
         ELSE \/ Tick(op, nextPc, nextI, TRUE, FALSE)
              \/ Tick(op, nextPc, nextI, TRUE, TRUE)

\* a page action whose failure is caught, with no guard before it
UnguardedCaught(op, nextPc, nextI) ==
    /\ Quiet
    /\ \/ Tick(op, nextPc, nextI, TRUE, FALSE)
       \/ ~dClosed /\ Tick(op, nextPc, nextI, TRUE, TRUE)

\* guard, then a page action nothing catches (waitForTimeout, locator.all()):
\* it raises out of the operation when the page closes under it
GuardedUncaught(op, closedPc, closedI, nextPc, nextI) ==
    /\ Quiet
    /\ IF ~isPageAvailable
         THEN Tick(op, closedPc, closedI, FALSE, FALSE)
         ELSE \/ Tick(op, nextPc, nextI, TRUE, FALSE)
              \/ Tick(op, "threw", 0, TRUE, TRUE)

\* a page action nothing catches, with no guard before it
UnguardedUncaught(op, nextPc, nextI) ==
    /\ Quiet
    /\ IF dClosed
         THEN Tick(op, "threw", 0, TRUE, FALSE)
         ELSE \/ Tick(op, nextPc, nextI, TRUE, FALSE)
              \/ Tick(op, "threw", 0, TRUE, TRUE)

\* await takeScreenshot(this.page, name): the capture may fail
Shot(op, nextPc, nextI) ==
    \E captureOk \in BOOLEAN :
        LET r == takeScreenshot(dClosed, captureOk) IN
        /\ lastShot' = r
        /\ Tick(op, IF r.raised THEN "threw" ELSE nextPc, nextI, r.attempted, FALSE)

\* the operation is called: if (!await this.isPageAvailable()) { log; return; }
Call(op, firstPc) ==
    /\ opPc' = [opPc EXCEPT ![op] = IF isPageAvailable THEN firstPc ELSE "done"]
    /\ opI' = [opI EXCEPT ![op] = 1]
    /\ closedAtCall' = [closedAtCall EXCEPT ![op] = dClosed]
    /\ issued' = [issued EXCEPT ![op] = FALSE]
    /\ issuedOnClosed' = [issuedOnClosed EXCEPT ![op] = FALSE]
    /\ UNCHANGED <<dClosed, lastShot>>

FirstPc(op) ==
    CASE op = "waitForDetailPageLoad" -> "loadState"
      [] op = "verifyDepositWithdraw" -> "deposit"
      [] OTHER -> "section"

Frame == UNCHANGED <<testVars, notDetailVars>>

(************************ waitForDetailPageLoad ****************************)
\* await this.page.waitForLoadState('networkidle')   (line 37, not caught)
waitForDetailPageLoad_loadState ==
    /\ opPc["waitForDetailPageLoad"] = "loadState"
    /\ GuardedUncaught("waitForDetailPageLoad", "done", 0, "selectors", 0)
    /\ Frame

\* try { await Promise.race([waitForSelector x 4]) ... } catch { fallback }
waitForDetailPageLoad_selectors ==
    /\ opPc["waitForDetailPageLoad"] = "selectors"
    /\ Quiet
    /\ IF dClosed
         THEN Tick("waitForDetailPageLoad", "fallback", 0, TRUE, FALSE)
         ELSE \/ Tick("waitForDetailPageLoad", "render", 0, TRUE, FALSE)
              \/ Tick("waitForDetailPageLoad", "fallback", 0, TRUE, FALSE)
              \/ Tick("waitForDetailPageLoad", "fallback", 0, TRUE, TRUE)
    /\ Frame

\* await this.page.waitForTimeout(TIMEOUTS.RENDER), inside the try
waitForDetailPageLoad_render ==
    /\ opPc["waitForDetailPageLoad"] = "render"
    /\ Quiet
    /\ IF dClosed
         THEN Tick("waitForDetailPageLoad", "fallback", 0, TRUE, FALSE)
         ELSE \/ Tick("waitForDetailPageLoad", "shot", 0, TRUE, FALSE)
              \/ Tick("waitForDetailPageLoad", "fallback", 0, TRUE, TRUE)
    /\ Frame

\* catch (error) { ...; await this.page.waitForTimeout(5000); }
waitForDetailPageLoad_fallback ==
    /\ opPc["waitForDetailPageLoad"] = "fallback"
    /\ UnguardedUncaught("waitForDetailPageLoad", "shot", 0)
    /\ Frame

\* if (await this.isPageAvailable()) await takeScreenshot(this.page, 'vault-detail')
waitForDetailPageLoad_shot ==
    /\ opPc["waitForDetailPageLoad"] = "shot"
    /\ IF ~isPageAvailable
         THEN Quiet /\ Tick("waitForDetailPageLoad", "done", 0, FALSE, FALSE)
         ELSE Shot("waitForDetailPageLoad", "done", 0)
    /\ Frame

(************************ verifyPerformanceChart ***************************)
\* for (const selector of SELECTORS.PERFORMANCE) { guard: break; isVisible ... }
\* if (performanceSection && guard) { periods ... } else log
verifyPerformanceChart_section ==
    /\ opPc["verifyPerformanceChart"] = "section"
    /\ LET i == opI["verifyPerformanceChart"] IN
       GuardedVisible("verifyPerformanceChart", "done", 0, "period", 1,
                      IF i < NPerformance THEN "section" ELSE "done",
                      IF i < NPerformance THEN i + 1 ELSE 0)
    /\ Frame

\* for (const period of SELECTORS.TIME_PERIODS) { guard: break; isVisible ... }
\* a break (or the guard of line 90) leads to the guard of line 123: return
verifyPerformanceChart_period ==
    /\ opPc["verifyPerformanceChart"] = "period"
    /\ LET i == opI["verifyPerformanceChart"] IN
       GuardedVisible("verifyPerformanceChart", "done", 0, "periodClick", i,
                      IF i < NTimePeriods THEN "period" ELSE "chart",
                      IF i < NTimePeriods THEN i + 1 ELSE 1)
    /\ Frame

\* await periodButton.click().catch(...)   (line 103, follows isVisible directly)
verifyPerformanceChart_periodClick ==
    /\ opPc["verifyPerformanceChart"] = "periodClick"
    /\ UnguardedCaught("verifyPerformanceChart", "periodWait", opI["verifyPerformanceChart"])
    /\ Frame

\* if (guard) { await waitForTimeout(ANIMATION); takeScreenshot } -- inside the try
verifyPerformanceChart_periodWait ==
    /\ opPc["verifyPerformanceChart"] = "periodWait"
    /\ LET i == opI["verifyPerformanceChart"]
           nextPc == IF i < NTimePeriods THEN "period" ELSE "chart"
           nextI == IF i < NTimePeriods THEN i + 1 ELSE 1 IN
       /\ Quiet
       /\ IF ~isPageAvailable
            THEN Tick("verifyPerformanceChart", nextPc, nextI, FALSE, FALSE)
            ELSE \/ Tick("verifyPerformanceChart", "periodShot", i, TRUE, FALSE)
                 \/ Tick("verifyPerformanceChart", nextPc, nextI, TRUE, TRUE)
    /\ Frame

\* await takeScreenshot(this.page, `performance-chart-${period}`)
verifyPerformanceChart_periodShot ==
    /\ opPc["verifyPerformanceChart"] = "periodShot"
    /\ LET i == opI["verifyPerformanceChart"] IN
       Shot("verifyPerformanceChart",
            IF i < NTimePeriods THEN "period" ELSE "chart",
            IF i < NTimePeriods THEN i + 1 ELSE 1)
    /\ Frame

\* if (guard fails) return; for (const selector of SELECTORS.CHART) { guard: break; isVisible }
verifyPerformanceChart_chart ==
    /\ opPc["verifyPerformanceChart"] = "chart"
    /\ LET i == opI["verifyPerformanceChart"] IN
       GuardedVisible("verifyPerformanceChart", "done", 0, "done", 0,
                      IF i < NChart THEN "chart" ELSE "done",
                      IF i < NChart THEN i + 1 ELSE 0)
    /\ Frame

(************************ verifyAssetsSection ******************************)
verifyAssetsSection_section ==
    /\ opPc["verifyAssetsSection"] = "section"
    /\ LET i == opI["verifyAssetsSection"] IN
       GuardedVisible("verifyAssetsSection", "done", 0, "items", 0,
                      IF i < NAssets THEN "section" ELSE "done",
                      IF i < NAssets THEN i + 1 ELSE 0)
    /\ Frame

\* if (assetsSection && guard) { const assetItems = await this.page.locator(...).all()
verifyAssetsSection_items ==
    /\ opPc["verifyAssetsSection"] = "items"
    /\ GuardedUncaught("verifyAssetsSection", "done", 0, "tvl", 0)
    /\ Frame

\* if (guard) { tvlText.isVisible().catch(() => false) }
verifyAssetsSection_tvl ==
    /\ opPc["verifyAssetsSection"] = "tvl"
    /\ GuardedVisible("verifyAssetsSection", "done", 0, "done", 0, "done", 0)
    /\ Frame

(************************ verifyStrategySettings ***************************)
verifyStrategySettings_section ==
    /\ opPc["verifyStrategySettings"] = "section"
    /\ LET i == opI["verifyStrategySettings"] IN
       GuardedVisible("verifyStrategySettings", "done", 0, "risk", 0,
                      IF i < NStrategy THEN "section" ELSE "done",
                      IF i < NStrategy THEN i + 1 ELSE 0)
    /\ Frame

\* if (strategySection && guard) { riskVisible = await riskIndicator.isVisible().catch
verifyStrategySettings_risk ==
    /\ opPc["verifyStrategySettings"] = "risk"
    /\ GuardedVisible("verifyStrategySettings", "done", 0, "riskText", 0, "range", 0)
    /\ Frame

\* const riskText = await riskIndicator.textContent().catch(() => 'Unknown')
verifyStrategySettings_riskText ==
    /\ opPc["verifyStrategySettings"] = "riskText"
    /\ UnguardedCaught("verifyStrategySettings", "range", 0)
    /\ Frame

\* if (guard) { rangeVisible = await rangeSettings.isVisible().catch(() => false) }
verifyStrategySettings_range ==
    /\ opPc["verifyStrategySettings"] = "range"
    /\ GuardedVisible("verifyStrategySettings", "done", 0, "done", 0, "done", 0)
    /\ Frame

(************************ verifyDepositWithdraw ****************************)
\* depositVisible = await depositButton.isVisible().catch(() => false)
verifyDepositWithdraw_deposit ==
    /\ opPc["verifyDepositWithdraw"] = "deposit"
    /\ GuardedVisible("verifyDepositWithdraw", "done", 0, "active", 0, "withdraw", 0)
    /\ Frame

\* if (depositVisible && guard) { isActive = await depositButton.evaluate(...).catch(() => false)
verifyDepositWithdraw_active ==
    /\ opPc["verifyDepositWithdraw"] = "active"
    /\ Quiet
    /\ IF ~isPageAvailable
         THEN Tick("verifyDepositWithdraw", "withdraw", 0, FALSE, FALSE)
         ELSE \/ Tick("verifyDepositWithdraw", "amount", 0, TRUE, FALSE)
              \/ Tick("verifyDepositWithdraw", "depositClick", 0, TRUE, FALSE)
              \/ Tick("verifyDepositWithdraw", "depositClick", 0, TRUE, TRUE)
    /\ Frame

\* if (!isActive && guard) { await depositButton.click().catch(...)
verifyDepositWithdraw_depositClick ==
    /\ opPc["verifyDepositWithdraw"] = "depositClick"
    /\ GuardedCaught("verifyDepositWithdraw", "amount", 0, "depositWait", 0)
    /\ Frame

\* if (guard) { await this.page.waitForTimeout(TIMEOUTS.ANIMATION) }   (not caught)
verifyDepositWithdraw_depositWait ==
    /\ opPc["verifyDepositWithdraw"] = "depositWait"
    /\ GuardedUncaught("verifyDepositWithdraw", "amount", 0, "amount", 0)
    /\ Frame

\* if (guard) { inputVisible = await amountInput.isVisible().catch(() => false)
verifyDepositWithdraw_amount ==
    /\ opPc["verifyDepositWithdraw"] = "amount"
    /\ GuardedVisible("verifyDepositWithdraw", "withdraw", 0, "max", 0, "withdraw", 0)
    /\ Frame

\* if (guard) { maxVisible = await maxButton.isVisible().catch(() => false) }
verifyDepositWithdraw_max ==
    /\ opPc["verifyDepositWithdraw"] = "max"
    /\ GuardedVisible("verifyDepositWithdraw", "slippage", 0, "slippage", 0, "slippage", 0)
    /\ Frame

\* if (guard) { slippageVisible = await slippageText.isVisible().catch(() => false) }
verifyDepositWithdraw_slippage ==
    /\ opPc["verifyDepositWithdraw"] = "slippage"
    /\ GuardedVisible("verifyDepositWithdraw", "withdraw", 0, "withdraw", 0, "withdraw", 0)
    /\ Frame

\* if (guard) { withdrawVisible = await withdrawButton.isVisible().catch(() => false)
verifyDepositWithdraw_withdraw ==
    /\ opPc["verifyDepositWithdraw"] = "withdraw"
    /\ GuardedVisible("verifyDepositWithdraw", "done", 0, "withdrawClick", 0, "done", 0)
    /\ Frame

\* if (withdrawVisible && guard) { await withdrawButton.click().catch(...)
verifyDepositWithdraw_withdrawClick ==
    /\ opPc["verifyDepositWithdraw"] = "withdrawClick"
    /\ GuardedCaught("verifyDepositWithdraw", "done", 0, "withdrawWait", 0)
    /\ Frame

\* if (guard) { await this.page.waitForTimeout(TIMEOUTS.ANIMATION)   (not caught)
verifyDepositWithdraw_withdrawWait ==
    /\ opPc["verifyDepositWithdraw"] = "withdrawWait"
    /\ GuardedUncaught("verifyDepositWithdraw", "done", 0, "withdrawInput", 0)
    /\ Frame

\* inputVisible = await withdrawInput.isVisible().catch(() => false)   (line 345)
verifyDepositWithdraw_withdrawInput ==
    /\ opPc["verifyDepositWithdraw"] = "withdrawInput"
    /\ UnguardedVisible("verifyDepositWithdraw", "done", 0, "done", 0)
    /\ Frame

(************************ verifyRiskWarning ********************************)
\* for (const selector of riskWarningSelectors) { guard: break; isVisible ... }
verifyRiskWarning_section ==
    /\ opPc["verifyRiskWarning"] = "section"
    /\ LET i == opI["verifyRiskWarning"] IN
       GuardedVisible("verifyRiskWarning", "done", 0, "content", 0,
                      IF i < NRiskWarning THEN "section" ELSE "done",
                      IF i < NRiskWarning THEN i + 1 ELSE 0)
    /\ Frame

\* if (guard) { contentVisible = await warningContent.isVisible().catch(() => false) }
verifyRiskWarning_content ==
    /\ opPc["verifyRiskWarning"] = "content"
    /\ GuardedVisible("verifyRiskWarning", "done", 0, "done", 0, "done", 0)
    /\ Frame

\* the browser page closes (a crash, a navigation that closes the tab, the
\* end of the test): page.isClosed() is true from then on
PageCloses ==
    /\ ~dClosed
    /\ dClosed' = TRUE
    /\ UNCHANGED <<opPc, opI, closedAtCall, issued, issuedOnClosed, lastShot>>
    /\ Frame

OpStep ==
    \/ waitForDetailPageLoad_loadState
    \/ waitForDetailPageLoad_selectors
    \/ waitForDetailPageLoad_render
    \/ waitForDetailPageLoad_fallback
    \/ waitForDetailPageLoad_shot
    \/ verifyPerformanceChart_section
    \/ verifyPerformanceChart_period
    \/ verifyPerformanceChart_periodClick
    \/ verifyPerformanceChart_periodWait
    \/ verifyPerformanceChart_periodShot
    \/ verifyPerformanceChart_chart
    \/ verifyAssetsSection_section
    \/ verifyAssetsSection_items
    \/ verifyAssetsSection_tvl
    \/ verifyStrategySettings_section
    \/ verifyStrategySettings_risk
    \/ verifyStrategySettings_riskText
    \/ verifyStrategySettings_range
    \/ verifyDepositWithdraw_deposit
    \/ verifyDepositWithdraw_active
    \/ verifyDepositWithdraw_depositClick
    \/ verifyDepositWithdraw_depositWait
    \/ verifyDepositWithdraw_amount
    \/ verifyDepositWithdraw_max
    \/ verifyDepositWithdraw_slippage
    \/ verifyDepositWithdraw_withdraw
    \/ verifyDepositWithdraw_withdrawClick
    \/ verifyDepositWithdraw_withdrawWait
    \/ verifyDepositWithdraw_withdrawInput
    \/ verifyRiskWarning_section
    \/ verifyRiskWarning_content

OpsIdle ==
    /\ dClosed = FALSE
    /\ opPc = [op \in Ops |-> "idle"]
    /\ opI = [op \in Ops |-> 0]
    /\ closedAtCall = [op \in Ops |-> FALSE]
    /\ issued = [op \in Ops |-> FALSE]
    /\ issuedOnClosed = [op \in Ops |-> FALSE]
    /\ lastShot = NoShot

TestIdle ==
    /\ tPc = "idle"
    /\ tOp = 0
    /\ clickOk = FALSE
    /\ tResult = "running"

NullResult == [kind |-> "null", accounts |-> <<>>, text |-> ""]

CallbackIds == {"cb1", "cb2"}

\* a call on the provider, with the callback list as it was when the call came
CallOf(op, event, callback, before) ==
    [op |-> op, event |-> event, callback |-> callback, before |-> before]

NoCall == CallOf("none", "none", "none", <<>>)

ProviderIdle ==
    /\ provKind = "stateless"
    /\ selectedAddress = ""
    /\ walletCallbacks = <<>>
    /\ lastMethod = "none"
    /\ lastResult = NullResult
    /\ delivered = [cb \in CallbackIds |-> 0]
    /\ lastCall = NoCall

LoadIdle ==
    /\ ltVariant = "plain"
    /\ ltPc = "idle"
    /\ ltOutcome = "none"
    /\ whitelistVerified = "unset"
    /\ requiresRealWallet = FALSE
    /\ wlTicks = 0
    /\ wlMessage = FALSE
    /\ connectAttached = FALSE
    /\ contentAttached = FALSE
    /\ everConnected = FALSE
    /\ titleHasVaults = FALSE
    /\ addressDisplayed = FALSE

\* SELECTORS.APR_HEADER has five entries
NAprHeader == 5

SortIdle ==
    /\ sbVariant = "double"
    /\ vaultAprs = <<>>
    /\ aprVisible = [i \in 1..NAprHeader |-> FALSE]
    /\ sortState = "unsorted"
    /\ sbPc = "idle"
    /\ sbI = 1
    /\ sbClicks = <<>>
    /\ sbWaits = 0
    /\ cmpPc = "idle"
    /\ cmpI = 0
    /\ cmpOpened = <<>>
    /\ cmpOutcome = "none"

\* vaultSelectors has five entries
NVaultSelectors == 5

\* what findFirstVault returns for "nothing found"
NullVault == [selector |-> 0, element |-> 0]

ListIdle ==
    /\ vlMatches = [k \in 1..NVaultSelectors |-> 0]
    /\ vlType = "none"
    /\ vlEnabled = FALSE
    /\ ffPc = "idle"
    /\ ffI = 1
    /\ ffConsulted = <<>>
    /\ ffResult = NullVault
    /\ cdPc = "idle"
    /\ cdIsPublic = FALSE
    /\ cdClicked = FALSE
    /\ cdVerifiedDisabled = FALSE

ShotsIdle ==
    /\ shVariant = "plain"
    /\ shNowMs = 0
    /\ shFiles = {}
    /\ shTaken = 0

FormIdle ==
    /\ fmTokenVariant = "single"
    /\ fmToggleVariant = "three"
    /\ fmPc = "idle"
    /\ token = "WETH"
    /\ tokenText = "none"
    /\ usdcFound = FALSE
    /\ wethFound = FALSE
    /\ tkDone = FALSE
    /\ toggleOn = FALSE
    /\ toggleAtStart = FALSE
    /\ labelFound = FALSE
    /\ checkboxFound = FALSE
    /\ switchFound = FALSE
    /\ tgActivations = 0

WalletIdle ==
    /\ swPc = "idle"
    /\ swRound = 1
    /\ swConnectCalls = 0
    /\ swVerify1 = "unset"
    /\ swVerify2 = "unset"
    /\ wvI = 1
    /\ wvShown = "none"
    /\ wvHeaderButton = FALSE

PvdIdle ==
    /\ pvRows = 0
    /\ pvIndex = 0
    /\ pvPc = "idle"
    /\ pvI = 1
    /\ pvWentBack = FALSE
    /\ pvCheckRaised = FALSE
    /\ pvChartFound = FALSE
    /\ pvError = "none"

GlobalIdle ==
    /\ gsCaller = "globalSetup"
    /\ gsPc = "idle"
    /\ gsBrowser = "none"
    /\ gsError = "none"
    /\ gsSetupFailed = FALSE
    /\ gsConnect = 0
    /\ gsAddress = FALSE
    /\ gsSel = 1
    /\ gsElapsed = 0
    /\ gsWaitExit = "none"

ConnectIdle ==
    /\ cwVariant = "injection"
    /\ cwPc = "idle"
    /\ cwI = 1
    /\ cwButton = 0
    /\ cwProvider = 0
    /\ cwAnyOption = FALSE
    /\ cwHasEthereum = FALSE
    /\ cwSelected = ""
    /\ cwShown = FALSE
    /\ cwFound = 0
    /\ cwClicks = 0
    /\ cwCaught = FALSE
    /\ cwIsConnected = "unset"
    /\ cwVerified = FALSE
    /\ cwOutcome = "none"

(***************************************************************************)
(* Scenario "api": a caller uses the page object and takeScreenshot on a   *)
(* page that may close at any time, one call after the other.              *)
(***************************************************************************)
\* await vaultDetailPage.<op>() once no operation is in progress
ApiCall ==
    /\ \A o \in Ops : Finished(o)
    /\ \E op \in Ops : Call(op, FirstPc(op))
    /\ Frame

\* await takeScreenshot(page, name) called directly, as the tests do
ApiTakeScreenshot ==
    /\ \A o \in Ops : Finished(o)
    /\ \E captureOk \in BOOLEAN : lastShot' = takeScreenshot(dClosed, captureOk)
    /\ UNCHANGED <<dClosed, opPc, opI, closedAtCall, issued, issuedOnClosed>>
    /\ Frame

ApiInit ==
    /\ SetupIdle
    /\ OpsIdle
    /\ ConnectIdle
    /\ GlobalIdle
    /\ PvdIdle
    /\ WalletIdle
    /\ FormIdle
    /\ ShotsIdle
    /\ ListIdle
    /\ TestIdle
    /\ ProviderIdle
    /\ LoadIdle
    /\ SortIdle

ApiNext == ApiCall \/ ApiTakeScreenshot \/ PageCloses \/ OpStep

SpecApi == ApiInit /\ [][ApiNext]_vars

(***************************************************************************)
(* Scenario "detail": the test 'should verify vault sorting, details and   *)
(* validate all vault information' (vaults/vaultDetails.spec.ts).  Each    *)
(* verification step is                                                    *)
(*   try { await Promise.race([op(), page.waitForTimeout(T).then(log)]) }  *)
(*   catch (error) { log }                                                 *)
(* Promise.race settles with the first of the two; it cancels neither.     *)
(***************************************************************************)
VerifyOps == {RaceOps[k] : k \in 1..Len(RaceOps)}

\* the operation the test is awaiting, if any
Awaited ==
    IF tPc = "load" THEN {"waitForDetailPageLoad"}
    ELSE IF tPc = "race" THEN {RaceOps[tOp]}
    ELSE {}

\* operations that lost their race and still run behind the test
Background == {op \in Ops : Running(op) /\ op \notin Awaited}

TestFrame == UNCHANGED notDetailVars

\* goto, waitForPageLoad, connectWallet, verifyWalletConnected, sortByAPR
\* (lines 27-35): any of them may throw, which fails the test
TestPrep ==
    /\ tPc = "prep"
    /\ \/ ~dClosed /\ tPc' = "find" /\ UNCHANGED tResult
       \/ tPc' = "end" /\ tResult' = "failed"
    /\ UNCHANGED <<tOp, clickOk, opVars>>
    /\ TestFrame

\* const vaultElement = await vaultListPage.findFirstVault();
\* if (!vaultElement) { await takeScreenshot(page, 'no-vaults-found-error'); return; }
TestFind ==
    /\ tPc = "find"
    /\ \/ ~dClosed /\ tPc' = "click" /\ UNCHANGED <<tResult, lastShot>>
       \/ /\ ~dClosed
          /\ \E captureOk \in BOOLEAN : lastShot' = takeScreenshot(dClosed, captureOk)
          /\ tPc' = "end" /\ tResult' = "returned"
       \/ dClosed /\ tPc' = "end" /\ tResult' = "failed" /\ UNCHANGED lastShot
    /\ UNCHANGED <<tOp, clickOk, dClosed, opPc, opI, closedAtCall, issued, issuedOnClosed>>
    /\ TestFrame

\* await vaultElement.click({ timeout }).catch(log);
\* await vaultDetailPage.waitForDetailPageLoad();
TestClick ==
    /\ tPc = "click"
    /\ \E ok \in BOOLEAN : clickOk' = (ok /\ ~dClosed)
    /\ Call("waitForDetailPageLoad", FirstPc("waitForDetailPageLoad"))
    /\ tPc' = "load"
    /\ UNCHANGED <<tOp, tResult>>
    /\ TestFrame

\* the step after the one at index k: `if (page.isClosed()) return;` and the
\* next Promise.race, which calls the next operation at once; after the last
\* step the final screenshot
Proceed(k) ==
    IF k = Len(RaceOps)
      THEN /\ tPc' = "final"
           /\ UNCHANGED <<tOp, tResult, opVars>>
      ELSE IF dClosed
             THEN /\ tPc' = "end" /\ tResult' = "returned"
                  /\ UNCHANGED <<tOp, opVars>>
             ELSE /\ Call(RaceOps[k + 1], FirstPc(RaceOps[k + 1]))
                  /\ tPc' = "race" /\ tOp' = k + 1
                  /\ UNCHANGED tResult

\* waitForDetailPageLoad settled: a rejection fails the test (it is awaited bare)
TestAfterLoad ==
    /\ tPc = "load"
    /\ Finished("waitForDetailPageLoad")
    /\ IF opPc["waitForDetailPageLoad"] = "threw"
         THEN tPc' = "end" /\ tResult' = "failed" /\ UNCHANGED <<tOp, opVars>>
         ELSE Proceed(0)
    /\ UNCHANGED clickOk
    /\ TestFrame

\* the operation of the race settled first (returned, or raised into the catch)
RaceOpSettles ==
    /\ tPc = "race"
    /\ Finished(RaceOps[tOp])
    /\ Proceed(tOp)
    /\ UNCHANGED clickOk
    /\ TestFrame

\* page.waitForTimeout(T) resolved first: the race is over for the test, the
\* operation goes on running
RaceTimerFires ==
    /\ tPc = "race"
    /\ Running(RaceOps[tOp])
    /\ ~dClosed
    /\ Cardinality(Background) < MaxBackground
    /\ Proceed(tOp)
    /\ UNCHANGED clickOk
    /\ TestFrame

\* the page closed under page.waitForTimeout(T): the race rejects into the catch
RaceTimerRejects ==
    /\ tPc = "race"
    /\ Running(RaceOps[tOp])
    /\ dClosed
    /\ Proceed(tOp)
    /\ UNCHANGED clickOk
    /\ TestFrame

\* if (!page.isClosed()) { await takeScreenshot(page, 'vault-detail-final'); }
TestFinal ==
    /\ tPc = "final"
    /\ \E captureOk \in BOOLEAN :
          lastShot' = IF dClosed THEN lastShot ELSE takeScreenshot(dClosed, captureOk)
    /\ tPc' = "end" /\ tResult' = "passed"
    /\ UNCHANGED <<tOp, clickOk, dClosed, opPc, opI, closedAtCall, issued, issuedOnClosed>>
    /\ TestFrame

Init ==
    /\ SetupIdle
    /\ OpsIdle
    /\ ConnectIdle
    /\ GlobalIdle
    /\ PvdIdle
    /\ WalletIdle
    /\ FormIdle
    /\ ShotsIdle
    /\ ListIdle
    /\ ProviderIdle
    /\ LoadIdle
    /\ SortIdle
    /\ tPc = "prep" /\ tOp = 0 /\ clickOk = FALSE /\ tResult = "running"

Next ==
    \/ TestPrep
    \/ TestFind
    \/ TestClick
    \/ TestAfterLoad
    \/ RaceOpSettles
    \/ RaceTimerFires
    \/ RaceTimerRejects
    \/ TestFinal
    \/ PageCloses
    \/ OpStep

Spec == Init /\ [][Next]_vars

(***************************************************************************)
(* Scenario "provider": the mock window.ethereum object that               *)
(* setupWalletConnection injects, in its two variants: the stateless       *)
(* object literal (request answers two methods, on/removeListener do       *)
(* nothing) and the stateful one (selectedAddress, _walletCallbacks,       *)
(* emit), together with the page.evaluate blocks of connectWallet and      *)
(* verifyWalletConnected that write to it.                                 *)
(***************************************************************************)
TEST_WALLET_ADDRESS == "0x1822946a4f1a625044d93a468db6db756d4f89ff"

ProviderKinds == {"stateless", "stateful"}

\* the method names a dapp sends; net_version stands for every name the mock
\* does not know
Methods == {"eth_requestAccounts", "eth_accounts", "eth_chainId", "net_version"}

Events == {"accountsChanged", "chainChanged"}

\* the longest _walletCallbacks.accountsChanged list the scenario builds
MaxCallbacks == 3

\* a value request() resolves to: a list of accounts, a string, or null
AccountsResult(list) == [kind |-> "accounts", accounts |-> list, text |-> ""]

TextResult(s) == [kind |-> "text", accounts |-> <<>>, text |-> s]

AccountMethods == {"eth_requestAccounts", "eth_accounts"}

\* mockProvider.request: async ({ method }) => { if (method === 'eth_requestAccounts'
\*   || method === 'eth_accounts') return ['0x1822...']; return null; }
\* (selectedAddress is not touched)
mockProviderRequest(method, selected) ==
    [result |-> IF method \in AccountMethods
                  THEN AccountsResult(<<TEST_WALLET_ADDRESS>>)
                  ELSE NullResult,
     selected |-> selected]

ethereumRequestStale(method, selected) ==
    [result |-> IF method \in AccountMethods THEN AccountsResult(<<selected>>)
                ELSE IF method = "eth_chainId" THEN TextResult("0x1")
                ELSE NullResult,
     selected |-> selected]

\* a request that stores the address whatever the method is
ethereumRequestAlwaysSelects(method, selected) ==
    [result |-> IF method \in AccountMethods
                  THEN AccountsResult(<<TEST_WALLET_ADDRESS>>)
                ELSE IF method = "eth_chainId" THEN TextResult("0x1")
                ELSE NullResult,
     selected |-> TEST_WALLET_ADDRESS]

\* window.ethereum.request: async (args) => {
\*   if (two account methods) { selectedAddress = '0x1822...'; return [selectedAddress]; }
\*   if (args.method === 'eth_chainId') return '0x1';
\*   return null; }
ethereumRequest(method, selected) ==
    LET sel2 == IF method \in AccountMethods THEN TEST_WALLET_ADDRESS ELSE selected IN
    [result |-> IF method \in AccountMethods THEN AccountsResult(<<sel2>>)
                ELSE IF method = "eth_chainId" THEN TextResult("0x1")
                ELSE NullResult,
     selected |-> sel2]

\* Array.prototype.lastIndexOf: the last position of x in s, 0 when absent
LastIndexOf(s, x) ==
    IF \E i \in 1..Len(s) : s[i] = x
      THEN CHOOSE i \in 1..Len(s) : s[i] = x /\ \A j \in (i + 1)..Len(s) : s[j] # x
      ELSE 0

\* Array.prototype.indexOf: the first position of x in s, 0 when absent
RECURSIVE IndexOfFrom(_, _, _)
IndexOfFrom(s, x, i) ==
    IF i > Len(s) THEN 0
    ELSE IF s[i] = x THEN i
    ELSE IndexOfFrom(s, x, i + 1)

IndexOf(s, x) == IndexOfFrom(s, x, 1)

\* Array.prototype.splice(index, 1)
SpliceOne(s, i) == SubSeq(s, 1, i - 1) \o SubSeq(s, i + 1, Len(s))

ProvFrame == UNCHANGED <<setupVars, opVars, testVars, loadVars, sortVars, listVars,
              shotVars, formVars, walletVars, pvdVars, globalVars, connectVars>>

\* await window.ethereum.request({ method })
ProviderRequest ==
    /\ \E m \in Methods :
          LET r == IF provKind = "stateless"
                     THEN mockProviderRequest(m, selectedAddress)
                     ELSE ethereumRequest(m, selectedAddress) IN
          /\ lastMethod' = m
          /\ lastResult' = r.result
          /\ selectedAddress' = r.selected
    /\ lastCall' = CallOf("request", "none", "none", walletCallbacks)
    /\ UNCHANGED <<provKind, walletCallbacks, delivered>>
    /\ ProvFrame

\* window.ethereum.on(event, callback): the stateless mock has on: () => {};
\* the stateful one pushes the callback for 'accountsChanged' only
ProviderOn ==
    /\ \E e \in Events, cb \in CallbackIds :
          /\ provKind = "stateful" /\ e = "accountsChanged"
                => Len(walletCallbacks) < MaxCallbacks
          /\ walletCallbacks' =
                IF provKind = "stateful" /\ e = "accountsChanged"
                  THEN Append(walletCallbacks, cb)
                  ELSE walletCallbacks
          /\ lastCall' = CallOf("on", e, cb, walletCallbacks)
    /\ UNCHANGED <<provKind, selectedAddress, lastMethod, lastResult, delivered>>
    /\ ProvFrame

\* window.ethereum.removeListener(event, callback): indexOf, then splice(index, 1)
ProviderRemoveListener ==
    /\ \E e \in Events, cb \in CallbackIds :
          /\ walletCallbacks' =
                IF provKind = "stateful" /\ e = "accountsChanged"
                     /\ IndexOf(walletCallbacks, cb) # 0
                  THEN SpliceOne(walletCallbacks, IndexOf(walletCallbacks, cb))
                  ELSE walletCallbacks
          /\ lastCall' = CallOf("removeListener", e, cb, walletCallbacks)
    /\ UNCHANGED <<provKind, selectedAddress, lastMethod, lastResult, delivered>>
    /\ ProvFrame

\* number of positions of list s that hold x
Occurrences(s, x) == Cardinality({i \in 1..Len(s) : s[i] = x})

\* connectWallet, step 3: page.evaluate((address) => { if (window.ethereum) {
\*   selectedAddress = address; dispatchEvent(...);
\*   callbacks.forEach(callback => callback([address]));
\*   if (typeof emit === 'function') emit('accountsChanged', [address]); } })
\* the stateless mock has neither _walletCallbacks nor emit
ConnectWalletEvaluate ==
    /\ selectedAddress' = TEST_WALLET_ADDRESS
    /\ delivered' =
          [cb \in CallbackIds |->
              IF provKind = "stateful"
                THEN Occurrences(walletCallbacks, cb) + Occurrences(walletCallbacks, cb)
                ELSE 0]
    /\ lastCall' = CallOf("connectWallet", "none", "none", walletCallbacks)
    /\ UNCHANGED <<provKind, walletCallbacks, lastMethod, lastResult>>
    /\ ProvFrame

\* verifyWalletConnected: page.evaluate((address) => {
\*   if (window.ethereum && !window.ethereum.selectedAddress) selectedAddress = address })
VerifyWalletConnectedEvaluate ==
    /\ selectedAddress' = IF selectedAddress = "" THEN TEST_WALLET_ADDRESS
                          ELSE selectedAddress
    /\ lastCall' = CallOf("verifyWalletConnected", "none", "none", walletCallbacks)
    /\ UNCHANGED <<provKind, walletCallbacks, lastMethod, lastResult, delivered>>
    /\ ProvFrame

\* the init script ran: the stateless literal carries the address from the
\* start, the stateful object starts with selectedAddress ''
ProviderInjected ==
    /\ provKind \in ProviderKinds
    /\ selectedAddress = IF provKind = "stateless" THEN TEST_WALLET_ADDRESS ELSE ""
    /\ walletCallbacks = <<>>
    /\ lastMethod = "none"
    /\ lastResult = NullResult
    /\ delivered = [cb \in CallbackIds |-> 0]
    /\ lastCall = NoCall

ProviderInit ==
    /\ SetupIdle
    /\ OpsIdle /\ ConnectIdle /\ GlobalIdle
    /\ PvdIdle
    /\ WalletIdle
    /\ FormIdle
    /\ ShotsIdle
    /\ ListIdle
    /\ TestIdle
    /\ LoadIdle
    /\ SortIdle
    /\ ProviderInjected

ProviderNext ==
    \/ ProviderRequest
    \/ ProviderOn
    \/ ProviderRemoveListener
    \/ ConnectWalletEvaluate
    \/ VerifyWalletConnectedEvaluate

SpecProvider == ProviderInit /\ [][ProviderNext]_vars

(***************************************************************************)
(* Scenario "load": the test 'should load vaults page and verify UI        *)
(* elements', with and without the whitelist verification in front of it.  *)
(* The page's content is the environment: it is chosen when the page       *)
(* loads, and a person at the browser may connect a wallet while the test  *)
(* waits.                                                                  *)
(***************************************************************************)
\* observation points in the 120000 ms of the two waitForSelector calls
WhitelistTicks == 4

LoadFrame == UNCHANGED <<setupVars, opVars, testVars, provVars, sortVars, listVars,
              shotVars, formVars, walletVars, pvdVars, globalVars, connectVars>>

LoadEnvUnchanged ==
    UNCHANGED <<wlMessage, connectAttached, contentAttached, everConnected,
                titleHasVaults, addressDisplayed>>

\* the test body starts (beforeEach has run)
LoadTestStart ==
    /\ ltPc = "idle"
    /\ \E v \in {"plain", "whitelist"} :
          /\ ltVariant' = v
          /\ ltPc' = IF v = "whitelist" THEN "wl_goto" ELSE "goto"
    /\ ltOutcome' = "running"
    /\ UNCHANGED <<whitelistVerified, requiresRealWallet, wlTicks>>
    /\ LoadEnvUnchanged
    /\ LoadFrame

\* verifyWalletWhitelist: await page.goto(VAULTS_URL); await page.waitForLoadState(...)
\* the page that loads may show a whitelist / access message, a Connect
\* Wallet button, the vault content, in any combination
verifyWalletWhitelist_goto ==
    /\ ltPc = "wl_goto"
    /\ wlMessage' \in BOOLEAN
    /\ connectAttached' \in BOOLEAN
    /\ contentAttached' \in BOOLEAN
    /\ ltPc' = "wl_evaluate"
    /\ UNCHANGED <<ltVariant, ltOutcome, whitelistVerified, requiresRealWallet,
                   wlTicks, everConnected, titleHasVaults, addressDisplayed>>
    /\ LoadFrame

\* errorElements.length > 0 || errorTexts.length > 0: an error element, or a
\* text holding 'whitelist', 'connect wallet', 'access denied', 'not authorized'
RequiresRealWallet(message, connectButton) == message \/ connectButton

\* const requiresRealWallet = await page.evaluate(...); when false the
\* function logs and returns true
verifyWalletWhitelist_evaluate ==
    /\ ltPc = "wl_evaluate"
    /\ requiresRealWallet' = RequiresRealWallet(wlMessage, connectAttached)
    /\ IF requiresRealWallet'
         THEN /\ ltPc' = "wl_shot"
              /\ UNCHANGED whitelistVerified
         ELSE /\ ltPc' = "wl_returned"
              /\ whitelistVerified' = "true"
    /\ UNCHANGED <<ltVariant, ltOutcome, wlTicks>>
    /\ LoadEnvUnchanged
    /\ LoadFrame

\* await page.screenshot({ path: '.../whitelist-verification-required.png' })
\* and the console instructions
verifyWalletWhitelist_shot ==
    /\ ltPc = "wl_shot"
    /\ ltPc' = "wl_race"
    /\ wlTicks' = 0
    /\ UNCHANGED <<ltVariant, ltOutcome, whitelistVerified, requiresRealWallet>>
    /\ LoadEnvUnchanged
    /\ LoadFrame

\* waitForSelector(connect button, { state: 'detached' }) resolves once no
\* such element is attached - at once when there never was one
DetachedWaitResolves(connectButton) == ~connectButton

\* await Promise.race([waitForSelector(connect button, detached, 120000),
\*                     waitForSelector(content, 120000)])
RaceResolves(connectButton, content) ==
    DetachedWaitResolves(connectButton) \/ content

\* one observation of the race: it resolves, or time passes, or both waits
\* time out and the catch block returns false
verifyWalletWhitelist_race ==
    /\ ltPc = "wl_race"
    /\ IF RaceResolves(connectAttached, contentAttached)
         THEN /\ ltPc' = "wl_connected_shot"
              /\ UNCHANGED <<wlTicks, whitelistVerified>>
         ELSE IF wlTicks < WhitelistTicks
                THEN /\ wlTicks' = wlTicks + 1
                     /\ UNCHANGED <<ltPc, whitelistVerified>>
                ELSE /\ ltPc' = "wl_returned"
                     /\ whitelistVerified' = "false"
                     /\ UNCHANGED wlTicks
    /\ UNCHANGED <<ltVariant, ltOutcome, requiresRealWallet>>
    /\ LoadEnvUnchanged
    /\ LoadFrame

\* the person at the browser connects a wallet extension while the test
\* waits: the Connect Wallet button goes away and the content shows
UserConnectsWallet ==
    /\ ltPc = "wl_race"
    /\ ~everConnected
    /\ everConnected' = TRUE
    /\ connectAttached' = FALSE
    /\ contentAttached' = TRUE
    /\ UNCHANGED <<ltVariant, ltPc, ltOutcome, whitelistVerified, requiresRealWallet,
                   wlTicks, wlMessage, titleHasVaults, addressDisplayed>>
    /\ LoadFrame

\* console.log('Wallet connected successfully'); await page.screenshot(...); return true
verifyWalletWhitelist_connectedShot ==
    /\ ltPc = "wl_connected_shot"
    /\ ltPc' = "wl_returned"
    /\ whitelistVerified' = "true"
    /\ UNCHANGED <<ltVariant, ltOutcome, requiresRealWallet, wlTicks>>
    /\ LoadEnvUnchanged
    /\ LoadFrame

\* if (!whitelistVerified) { test.skip(); return; }
LoadTestAfterWhitelist ==
    /\ ltPc = "wl_returned"
    /\ IF whitelistVerified = "false"
         THEN /\ ltPc' = "done"
              /\ ltOutcome' = "skipped"
         ELSE /\ ltPc' = "goto"
              /\ UNCHANGED ltOutcome
    /\ UNCHANGED <<ltVariant, whitelistVerified, requiresRealWallet, wlTicks>>
    /\ LoadEnvUnchanged
    /\ LoadFrame

\* await page.goto(VAULTS_URL); waitForLoadState('networkidle'); screenshot:
\* the page shows some title and shows the shortened address or not
LoadTestGoto ==
    /\ ltPc = "goto"
    /\ titleHasVaults' \in BOOLEAN
    /\ addressDisplayed' \in BOOLEAN
    /\ ltPc' = "title"
    /\ UNCHANGED <<ltVariant, ltOutcome, whitelistVerified, requiresRealWallet,
                   wlTicks, wlMessage, connectAttached, contentAttached, everConnected>>
    /\ LoadFrame

\* expect(pageTitle).toContain('Vaults')
LoadTestTitle ==
    /\ ltPc = "title"
    /\ IF titleHasVaults
         THEN /\ ltPc' = "address"
              /\ UNCHANGED ltOutcome
         ELSE /\ ltPc' = "done"
              /\ ltOutcome' = "failed"
    /\ UNCHANGED <<ltVariant, whitelistVerified, requiresRealWallet, wlTicks>>
    /\ LoadEnvUnchanged
    /\ LoadFrame

\* page.getByText(...) builds a Locator whether or not anything matches; the
\* Locator object is truthy
LocatorIsTruthy(matches) == TRUE

\* const addressElement = await page.getByText(new RegExp(shortenedAddress, 'i'));
\* expect(addressElement).toBeTruthy()
LoadTestAddress ==
    /\ ltPc = "address"
    /\ IF LocatorIsTruthy(addressDisplayed)
         THEN /\ ltPc' = "rest"
              /\ UNCHANGED ltOutcome
         ELSE /\ ltPc' = "done"
              /\ ltOutcome' = "failed"
    /\ UNCHANGED <<ltVariant, whitelistVerified, requiresRealWallet, wlTicks>>
    /\ LoadEnvUnchanged
    /\ LoadFrame

\* the remaining checks: toBeTruthy on Locators, the vault table branch, the
\* deposit try/catch that logs, the search branch, the final screenshot
LoadTestRest ==
    /\ ltPc = "rest"
    /\ ltPc' = "done"
    /\ ltOutcome' = "passed"
    /\ UNCHANGED <<ltVariant, whitelistVerified, requiresRealWallet, wlTicks>>
    /\ LoadEnvUnchanged
    /\ LoadFrame

LoadInit ==
    /\ SetupIdle
    /\ OpsIdle
    /\ ConnectIdle
    /\ GlobalIdle
    /\ PvdIdle
    /\ WalletIdle
    /\ FormIdle
    /\ ShotsIdle
    /\ ListIdle
    /\ TestIdle
    /\ ProviderIdle
    /\ LoadIdle
    /\ SortIdle

LoadNext ==
    \/ LoadTestStart
    \/ verifyWalletWhitelist_goto
    \/ verifyWalletWhitelist_evaluate
    \/ verifyWalletWhitelist_shot
    \/ verifyWalletWhitelist_race
    \/ UserConnectsWallet
    \/ verifyWalletWhitelist_connectedShot
    \/ LoadTestAfterWhitelist
    \/ LoadTestGoto
    \/ LoadTestTitle
    \/ LoadTestAddress
    \/ LoadTestRest

SpecLoad == LoadInit /\ [][LoadNext]_vars

(***************************************************************************)
(* Scenario "sort": VaultListPage.sortByAPR in its two variants, and the   *)
(* comparison test that calls it and then opens vaults in a loop.  The     *)
(* vault list page is the environment: which APR header selectors match a  *)
(* visible element, the rows it lists, the order it shows them in, and     *)
(* what a click on the header does to that order.  The page stays open in  *)
(* this scenario.                                                          *)
(***************************************************************************)
\* for (let i = 0; i < 3; i++)
NCompared == 3

\* the APR of each vault, in the order the page lists them before any sort
VaultLists == {<<>>, <<12, 30, 7>>}

SortStates == {"unsorted", "asc", "desc"}

SortVariants == {"double", "single"}

\* position of the largest (desc) or smallest (asc) element of a non-empty s
RECURSIVE BestIndex(_, _, _, _)
BestIndex(s, desc, i, best) ==
    IF i > Len(s) THEN best
    ELSE IF (desc /\ s[i] > s[best]) \/ (~desc /\ s[i] < s[best])
           THEN BestIndex(s, desc, i + 1, i)
           ELSE BestIndex(s, desc, i + 1, best)

RECURSIVE SortRows(_, _)
SortRows(s, desc) ==
    IF Len(s) = 0 THEN <<>>
    ELSE LET b == BestIndex(s, desc, 1, 1) IN
         <<s[b]>> \o SortRows(SubSeq(s, 1, b - 1) \o SubSeq(s, b + 1, Len(s)), desc)

\* the rows as the page shows them
Display(aprs, state) ==
    IF state = "asc" THEN SortRows(aprs, FALSE)
    ELSE IF state = "desc" THEN SortRows(aprs, TRUE)
    ELSE aprs

IsDescending(s) == \A i \in 1..Len(s) : \A j \in i..Len(s) : s[i] >= s[j]

\* "Click once to sort (may be ASC or DESC depending on default)";
\* "Click again to ensure DESC order": a click on the header of an unsorted
\* column sorts it one way or the other, a click on a sorted one reverses it
HeaderClick(state) ==
    IF state = "unsorted" THEN {"asc", "desc"}
    ELSE IF state = "asc" THEN {"desc"}
    ELSE {"asc"}

SortFrame == UNCHANGED <<setupVars, opVars, testVars, provVars, loadVars, listVars,
              shotVars, formVars, walletVars, pvdVars, globalVars, connectVars>>

SortEnvUnchanged == UNCHANGED <<sbVariant, vaultAprs, aprVisible>>

CmpUnchanged == UNCHANGED <<cmpPc, cmpI, cmpOpened, cmpOutcome>>

SbUnchanged == UNCHANGED <<sbPc, sbI, sbClicks, sbWaits>>

\* entering sortByAPR: console.log, then the loop over SELECTORS.APR_HEADER
SbCalled ==
    /\ sbPc' = "loop"
    /\ sbI' = 1
    /\ sbClicks' = <<>>
    /\ sbWaits' = 0

\* for (const selector of SELECTORS.APR_HEADER) {
\*   const aprHeader = this.page.locator(selector).first();
\*   if (await aprHeader.isVisible()) ...
\* after the loop: the double variant logs and goes on to takeScreenshot, the
\* single variant logs and returns
sortByAPR_isVisible ==
    /\ sbPc = "loop"
    /\ IF sbI > NAprHeader
         THEN /\ sbPc' = IF sbVariant = "double" THEN "shot" ELSE "done"
              /\ UNCHANGED sbI
         ELSE IF aprVisible[sbI]
                THEN /\ sbPc' = "click"
                     /\ UNCHANGED sbI
                ELSE /\ sbI' = sbI + 1
                     /\ UNCHANGED sbPc
    /\ UNCHANGED <<sbClicks, sbWaits, sortState>>
    /\ SortEnvUnchanged /\ CmpUnchanged
    /\ SortFrame

\* double: await aprHeader.click()               - a failed click throws
\* single: await aprHeader.click({ timeout }).catch(log) - a failed click is logged
sortByAPR_click ==
    /\ sbPc = "click"
    /\ \E ok \in BOOLEAN :
          IF ok
            THEN /\ sbClicks' = Append(sbClicks, sbI)
                 /\ sortState' \in HeaderClick(sortState)
                 /\ sbPc' = "wait"
            ELSE /\ UNCHANGED <<sbClicks, sortState>>
                 /\ sbPc' = IF sbVariant = "double" THEN "raised" ELSE "wait"
    /\ UNCHANGED <<sbI, sbWaits>>
    /\ SortEnvUnchanged /\ CmpUnchanged
    /\ SortFrame

\* how many rounds of click-and-wait each variant does on the header it found
ClickRounds(variant) == IF variant = "double" THEN 2 ELSE 1

\* await this.page.waitForTimeout(TIMEOUTS.ANIMATION); the double variant
\* then clicks again, and after the second wait breaks out of the loop; the
\* single variant returns
sortByAPR_wait ==
    /\ sbPc = "wait"
    /\ sbWaits' = sbWaits + 1
    /\ sbPc' = IF sbWaits' < ClickRounds(sbVariant) THEN "click"
               ELSE IF sbVariant = "double" THEN "shot"
               ELSE "done"
    /\ UNCHANGED <<sbI, sbClicks, sortState>>
    /\ SortEnvUnchanged /\ CmpUnchanged
    /\ SortFrame

\* await takeScreenshot(this.page, 'vaults-sorted-by-apr'), which does not raise
sortByAPR_shot ==
    /\ sbPc = "shot"
    /\ sbPc' = "done"
    /\ UNCHANGED <<sbI, sbClicks, sbWaits, sortState>>
    /\ SortEnvUnchanged /\ CmpUnchanged
    /\ SortFrame

\* test body up to the first sort: goto, waitForPageLoad, connectWallet,
\* verifyWalletConnected, then await vaultListPage.sortByAPR()
CmpStart ==
    /\ cmpPc = "idle"
    /\ cmpPc' = "sorting"
    /\ cmpOutcome' = "running"
    /\ SbCalled
    /\ UNCHANGED <<cmpI, cmpOpened, sortState>>
    /\ SortEnvUnchanged
    /\ SortFrame

\* the first sortByAPR is awaited outside any try: if it raised the test fails
CmpSorted ==
    /\ cmpPc = "sorting"
    /\ sbPc \in {"done", "raised"}
    /\ IF sbPc = "raised"
         THEN /\ cmpPc' = "done"
              /\ cmpOutcome' = "failed"
         ELSE /\ cmpPc' = "iter"
              /\ UNCHANGED cmpOutcome
    /\ UNCHANGED <<cmpI, cmpOpened, sortState>>
    /\ SbUnchanged /\ SortEnvUnchanged
    /\ SortFrame

\* findFirstVault: the first selector that matches anything gives
\* elements[0], the first row shown; null when nothing matches
findFirstVault(rows) == IF Len(rows) = 0 THEN 0 ELSE 1

\* for (let i = 0; i < 3; i++) processVaultDetails(i, ...):
\*   const vaultElement = await vaultListPage.findFirstVault();
\*   if (!vaultElement) return;
\*   await vaultElement.click({ timeout }).catch(log)
\* vaultIndex is used in the log lines only
processVaultDetails_open ==
    /\ cmpPc = "iter"
    /\ cmpI < NCompared
    /\ LET rows == Display(vaultAprs, sortState)
           pos == findFirstVault(rows) IN
       IF pos = 0
         THEN /\ cmpI' = cmpI + 1
              /\ UNCHANGED <<cmpPc, cmpOpened>>
         ELSE /\ cmpOpened' = Append(cmpOpened, [index |-> cmpI, position |-> pos])
              /\ cmpPc' = "details"
              /\ UNCHANGED cmpI
    /\ UNCHANGED <<cmpOutcome, sortState>>
    /\ SbUnchanged /\ SortEnvUnchanged
    /\ SortFrame

\* waitForDetailPageLoad and the timeout-protected verifications, then
\* await vaultListPage.goto(): the list page loads again in its default
\* order; if goto throws the function logs and returns
processVaultDetails_return ==
    /\ cmpPc = "details"
    /\ \E ok \in BOOLEAN :
          IF ok
            THEN /\ sortState' = "unsorted"
                 /\ cmpPc' = "resorting"
                 /\ SbCalled
                 /\ UNCHANGED cmpI
            ELSE /\ cmpPc' = "iter"
                 /\ cmpI' = cmpI + 1
                 /\ UNCHANGED sortState
                 /\ SbUnchanged
    /\ UNCHANGED <<cmpOpened, cmpOutcome>>
    /\ SortEnvUnchanged
    /\ SortFrame

\* try { await vaultListPage.sortByAPR(); } catch (error) { console.log(...) }
processVaultDetails_resorted ==
    /\ cmpPc = "resorting"
    /\ sbPc \in {"done", "raised"}
    /\ cmpPc' = "iter"
    /\ cmpI' = cmpI + 1
    /\ UNCHANGED <<cmpOpened, cmpOutcome, sortState>>
    /\ SbUnchanged /\ SortEnvUnchanged
    /\ SortFrame

\* after the loop: takeScreenshot(page, 'vaults-comparison-complete')
CmpFinal ==
    /\ cmpPc = "iter"
    /\ cmpI = NCompared
    /\ cmpPc' = "done"
    /\ cmpOutcome' = "passed"
    /\ UNCHANGED <<cmpI, cmpOpened, sortState>>
    /\ SbUnchanged /\ SortEnvUnchanged
    /\ SortFrame

\* the list page as the test finds it
SortInit ==
    /\ SetupIdle
    /\ OpsIdle /\ ConnectIdle /\ GlobalIdle
    /\ PvdIdle
    /\ WalletIdle
    /\ FormIdle
    /\ ShotsIdle
    /\ ListIdle
    /\ TestIdle
    /\ ProviderIdle
    /\ LoadIdle
    /\ sbVariant \in SortVariants
    /\ vaultAprs \in VaultLists
    /\ aprVisible \in [1..NAprHeader -> BOOLEAN]
    /\ sortState \in SortStates
    /\ sbPc = "idle"
    /\ sbI = 1
    /\ sbClicks = <<>>
    /\ sbWaits = 0
    /\ cmpPc = "idle"
    /\ cmpI = 0
    /\ cmpOpened = <<>>
    /\ cmpOutcome = "none"

SortNext ==
    \/ sortByAPR_isVisible
    \/ sortByAPR_click
    \/ sortByAPR_wait
    \/ sortByAPR_shot
    \/ CmpStart
    \/ CmpSorted
    \/ processVaultDetails_open
    \/ processVaultDetails_return
    \/ processVaultDetails_resorted
    \/ CmpFinal

SpecSort == SortInit /\ [][SortNext]_vars

(***************************************************************************)
(* Scenario "list": findFirstVault walks its selector list; the deposit    *)
(* helper takes the row it returns, reads its type and the state of its    *)
(* Deposit button, and acts on them.  The page is the environment: how     *)
(* many elements each selector matches, the type text of the first row,    *)
(* whether its button is enabled.                                          *)
(***************************************************************************)
\* the most elements one selector matches in this scenario
MaxMatches == 2

VaultTypes == {"public", "private", "none"}

ListFrame == UNCHANGED <<setupVars, opVars, testVars, provVars, loadVars, sortVars,
              shotVars, formVars, walletVars, pvdVars, globalVars, connectVars>>

ListEnvUnchanged == UNCHANGED <<vlMatches, vlType, vlEnabled>>

FfUnchanged == UNCHANGED <<ffPc, ffI, ffConsulted, ffResult>>

CdUnchanged == UNCHANGED <<cdPc, cdIsPublic, cdClicked, cdVerifiedDisabled>>

\* entering findFirstVault: for (const selector of vaultSelectors)
FfCalled ==
    /\ ffPc' = "loop"
    /\ ffI' = 1
    /\ ffConsulted' = <<>>
    /\ ffResult' = NullVault

PickLast(count) == count

\* return elements[0]: of the count elements matched, the first
PickFirst(count) == 1

\* const elements = await this.page.locator(selector).all();
\* if (elements.length > 0) return elements[0];
\* after the loop: console.log('No vaults found on the page'); return null
findFirstVault_query ==
    /\ ffPc = "loop"
    /\ IF ffI > NVaultSelectors
         THEN /\ ffPc' = "done"
              /\ ffResult' = NullVault
              /\ UNCHANGED <<ffI, ffConsulted>>
         ELSE /\ ffConsulted' = Append(ffConsulted, ffI)
              /\ IF vlMatches[ffI] > 0
                   THEN /\ ffResult' = [selector |-> ffI,
                                        element |-> PickFirst(vlMatches[ffI])]
                        /\ ffPc' = "done"
                        /\ UNCHANGED ffI
                   ELSE /\ ffI' = ffI + 1
                        /\ UNCHANGED <<ffPc, ffResult>>
    /\ ListEnvUnchanged /\ CdUnchanged
    /\ ListFrame

\* a test calls vaultListPage.findFirstVault()
ListCallsFind ==
    /\ ffPc \in {"idle", "done"}
    /\ cdPc \in {"idle", "done", "raised"}
    /\ FfCalled
    /\ ListEnvUnchanged /\ CdUnchanged
    /\ ListFrame

\* clickFirstDepositButton: const vaultRow = await this.findFirstVault()
clickFirstDepositButton_find ==
    /\ cdPc \in {"idle", "done", "raised"}
    /\ ffPc \in {"idle", "done"}
    /\ cdPc' = "finding"
    /\ cdIsPublic' = FALSE
    /\ cdClicked' = FALSE
    /\ cdVerifiedDisabled' = FALSE
    /\ FfCalled
    /\ ListEnvUnchanged
    /\ ListFrame

\* typeText?.toLowerCase().includes('public')
IncludesPublic(typeText) == typeText = "public"

\* if (!vaultRow) { log; return; }
\* const typeText = await vaultRow.locator('text=/Public|Private/i').textContent();
\* const isPublic = typeText?.toLowerCase().includes('public');
\* a row without such a text makes textContent time out and raise
clickFirstDepositButton_type ==
    /\ cdPc = "finding"
    /\ ffPc = "done"
    /\ IF ffResult = NullVault
         THEN /\ cdPc' = "done"
              /\ UNCHANGED cdIsPublic
         ELSE IF vlType = "none"
                THEN /\ cdPc' = "raised"
                     /\ UNCHANGED cdIsPublic
                ELSE /\ cdIsPublic' = IncludesPublic(vlType)
                     /\ cdPc' = "enabled"
    /\ UNCHANGED <<cdClicked, cdVerifiedDisabled>>
    /\ ListEnvUnchanged /\ FfUnchanged
    /\ ListFrame

\* const isDepositEnabled = await depositButton.isEnabled();
\* if (!isPublic && !isDepositEnabled) { log; takeScreenshot; return; }
\* if (isDepositEnabled) { await depositButton.click(); ... } else { log }
clickFirstDepositButton_button ==
    /\ cdPc = "enabled"
    /\ IF ~cdIsPublic /\ ~vlEnabled
         THEN /\ cdVerifiedDisabled' = TRUE
              /\ cdPc' = "done"
              /\ UNCHANGED cdClicked
         ELSE IF vlEnabled
                THEN /\ \E ok \in BOOLEAN :
                          /\ cdClicked' = ok
                          /\ cdPc' = IF ok THEN "dialog" ELSE "raised"
                     /\ UNCHANGED cdVerifiedDisabled
                ELSE /\ cdPc' = "done"
                     /\ UNCHANGED <<cdClicked, cdVerifiedDisabled>>
    /\ UNCHANGED cdIsPublic
    /\ ListEnvUnchanged /\ FfUnchanged
    /\ ListFrame

\* after the click: waitForTimeout(ANIMATION), takeScreenshot,
\* checkDepositDialogAndInteract (the modal detection in the other variant)
clickFirstDepositButton_dialog ==
    /\ cdPc = "dialog"
    /\ \E ok \in BOOLEAN : cdPc' = IF ok THEN "done" ELSE "raised"
    /\ UNCHANGED <<cdIsPublic, cdClicked, cdVerifiedDisabled>>
    /\ ListEnvUnchanged /\ FfUnchanged
    /\ ListFrame

\* the vault list as some page shows it
ListInit ==
    /\ SetupIdle
    /\ OpsIdle /\ ConnectIdle /\ GlobalIdle
    /\ PvdIdle
    /\ WalletIdle
    /\ FormIdle
    /\ ShotsIdle
    /\ TestIdle
    /\ ProviderIdle
    /\ LoadIdle
    /\ SortIdle
    /\ vlMatches \in [1..NVaultSelectors -> 0..MaxMatches]
    /\ vlType \in VaultTypes
    /\ vlEnabled \in BOOLEAN
    /\ ffPc = "idle"
    /\ ffI = 1
    /\ ffConsulted = <<>>
    /\ ffResult = NullVault
    /\ cdPc = "idle"
    /\ cdIsPublic = FALSE
    /\ cdClicked = FALSE
    /\ cdVerifiedDisabled = FALSE

ListNext ==
    \/ ListCallsFind
    \/ findFirstVault_query
    \/ clickFirstDepositButton_find
    \/ clickFirstDepositButton_type
    \/ clickFirstDepositButton_button
    \/ clickFirstDepositButton_dialog

SpecList == ListInit /\ [][ListNext]_vars

(***************************************************************************)
(* Scenario "shots": page objects and tests call takeScreenshot with a     *)
(* name; the helper derives the path and writes the file, replacing a file *)
(* already at that path.  The clock advances between calls.                *)
(***************************************************************************)
\* the clock moves in steps of this many milliseconds
ClockStepMs == 500

\* the run lasts at most this long
MaxRunMs == 2000

\* captures in one run
MaxShots == 3

\* names passed to takeScreenshot: by waitForDetailPageLoad, by sortByAPR,
\* by the comparison test at its end
ShotNames == {"vault-detail", "vaults-sorted-by-apr", "vaults-comparison-complete"}

ShotVariants == {"plain", "stamped"}

\* formatDate: getHours, getMinutes, getSeconds, each padded to two digits;
\* the milliseconds are dropped
formatDate(nowMs) ==
    LET secs == nowMs \div 1000 IN
    <<(secs \div 3600) % 24, (secs \div 60) % 60, secs % 60>>

\* path.join(initScreenshotsDir(), `${name}.png`)              (plain)
\* path.join(initScreenshotsDir(), `${name}-${timestamp}.png`) (stamped)
screenshotPath(variant, name, nowMs) ==
    [name |-> name,
     stamp |-> IF variant = "stamped" THEN formatDate(nowMs) ELSE <<>>]

ShotFrame ==
    UNCHANGED <<setupVars, opVars, testVars, provVars, loadVars, sortVars, listVars,
              formVars, walletVars, pvdVars, globalVars, connectVars>>

\* time passes between two awaited steps
ClockAdvances ==
    /\ shNowMs + ClockStepMs <= MaxRunMs
    /\ shNowMs' = shNowMs + ClockStepMs
    /\ UNCHANGED <<shVariant, shFiles, shTaken>>
    /\ ShotFrame

\* await page.screenshot({ path: screenshotPath, ... }) on an open page
ShotWritten ==
    /\ shTaken < MaxShots
    /\ \E name \in ShotNames :
          shFiles' = shFiles \cup {screenshotPath(shVariant, name, shNowMs)}
    /\ shTaken' = shTaken + 1
    /\ UNCHANGED <<shVariant, shNowMs>>
    /\ ShotFrame

\* the screenshots directory at the start of a run
ShotsInit ==
    /\ SetupIdle
    /\ OpsIdle /\ ConnectIdle /\ GlobalIdle
    /\ PvdIdle
    /\ WalletIdle
    /\ FormIdle
    /\ TestIdle
    /\ ProviderIdle
    /\ LoadIdle
    /\ SortIdle
    /\ ListIdle
    /\ shVariant \in ShotVariants
    /\ shNowMs = 0
    /\ shFiles = {}
    /\ shTaken = 0

ShotsNext == ClockAdvances \/ ShotWritten

SpecShots == ShotsInit /\ [][ShotsNext]_vars

(***************************************************************************)
(* Scenario "form": the create-vault form is the environment: the token    *)
(* selected when it opens, which options its dropdown offers to the        *)
(* selectors, which parts of the Publish Vault switch the selectors find,  *)
(* and whether each click goes through.  A click that does not go through  *)
(* raises; whether that ends the test depends on the try block around it.  *)
(***************************************************************************)
Tokens == {"WETH", "USDC"}

TokenVariants == {"single", "multi"}

ToggleVariants == {"three", "restore", "plain"}

FormFrame ==
    UNCHANGED <<setupVars, opVars, testVars, provVars, loadVars, sortVars, listVars,
                shotVars, walletVars, pvdVars, globalVars, connectVars>>

FormEnvUnchanged ==
    UNCHANGED <<fmTokenVariant, fmToggleVariant, usdcFound, wethFound, labelFound,
                checkboxFound, switchFound>>

ToggleUnchanged == UNCHANGED <<toggleOn, toggleAtStart, tgActivations>>

\* the principal-token step is over: the publish-toggle step starts
TokenStepDone ==
    /\ fmPc' = IF fmToggleVariant = "three" THEN "label" ELSE "first"
    /\ tkDone' = TRUE

\* const tokenText = await tokenButton.textContent();
\* await tokenButton.click(); await page.waitForTimeout(2000)
tokenStep_open ==
    /\ fmPc = "idle"
    /\ tokenText' = token
    /\ \E ok \in BOOLEAN : fmPc' = IF ok THEN "select" ELSE "raised"
    /\ UNCHANGED <<token, tkDone>>
    /\ ToggleUnchanged /\ FormEnvUnchanged
    /\ FormFrame

\* if (tokenText?.includes('WETH')) { select USDC ... } else { select WETH ... }
\* single: if (await option.count() > 0) { click; wait; expect(selected).toBeVisible }
\*         else log 'not found in dropdown, skipping token switch'
\* multi:  for (selector of TOKEN_OPTIONS.X) if (count > 0) { click; break }
\*         then expect(button with X).toBeVisible, which fails when nothing was clicked
tokenStep_select ==
    /\ fmPc = "select"
    /\ LET wanted == IF tokenText = "WETH" THEN "USDC" ELSE "WETH"
           found == IF wanted = "USDC" THEN usdcFound ELSE wethFound IN
       IF found
         THEN \E ok \in BOOLEAN :
                IF ok
                  THEN /\ token' = wanted
                       /\ IF wanted = "USDC"
                            THEN fmPc' = "back" /\ UNCHANGED tkDone
                            ELSE TokenStepDone
                  ELSE /\ fmPc' = "raised"
                       /\ UNCHANGED <<token, tkDone>>
         ELSE /\ UNCHANGED token
              /\ IF fmTokenVariant = "single"
                   THEN TokenStepDone
                   ELSE fmPc' = "raised" /\ UNCHANGED tkDone
    /\ UNCHANGED tokenText
    /\ ToggleUnchanged /\ FormEnvUnchanged
    /\ FormFrame

\* "Switch back to WETH for the rest of the test": click the selector button
\* again, wait, then click the WETH option if the selector finds one
tokenStep_back ==
    /\ fmPc = "back"
    /\ \E opened \in BOOLEAN, ok \in BOOLEAN :
          IF ~opened
            THEN fmPc' = "raised" /\ UNCHANGED <<token, tkDone>>
            ELSE IF wethFound
                   THEN IF ok
                          THEN token' = "WETH" /\ TokenStepDone
                          ELSE fmPc' = "raised" /\ UNCHANGED <<token, tkDone>>
                   ELSE UNCHANGED token /\ TokenStepDone
    /\ UNCHANGED tokenText
    /\ ToggleUnchanged /\ FormEnvUnchanged
    /\ FormFrame

\* a click that reaches the switch flips it
Activate ==
    /\ toggleOn' = ~toggleOn
    /\ tgActivations' = tgActivations + 1

NotActivated == UNCHANGED <<toggleOn, tgActivations>>

\* PUBLISH_TOGGLE lists selectors for the switch, its checkbox and its label
PublishToggleFound == checkboxFound \/ switchFound

TokenUnchanged == UNCHANGED <<token, tokenText, tkDone>>

\* three-approach step, 1: if (await toggleLabel.count() > 0)
\*   try { await toggleLabel.click({ force: true }); wait } catch { log }
toggleStep_label ==
    /\ fmPc = "label"
    /\ toggleAtStart' = toggleOn
    /\ \E ok \in BOOLEAN :
          IF labelFound /\ ok THEN Activate ELSE NotActivated
    /\ fmPc' = "checkbox"
    /\ TokenUnchanged /\ FormEnvUnchanged
    /\ FormFrame

\* three-approach step, 2 ("If that didn't work ..."): try {
\*   if (await checkbox.count() > 0) { await page.evaluate(checkbox.click()); wait }
\* } catch { log }
toggleStep_checkbox ==
    /\ fmPc = "checkbox"
    /\ \E ok \in BOOLEAN :
          IF checkboxFound /\ ok THEN Activate ELSE NotActivated
    /\ fmPc' = "switch"
    /\ UNCHANGED toggleAtStart
    /\ TokenUnchanged /\ FormEnvUnchanged
    /\ FormFrame

\* three-approach step, 3 ("As a last resort ..."): try {
\*   if (await switchContainer.count() > 0) { await switchContainer.click({ force }); wait }
\* } catch { log }
toggleStep_switch ==
    /\ fmPc = "switch"
    /\ \E ok \in BOOLEAN :
          IF switchFound /\ ok THEN Activate ELSE NotActivated
    /\ fmPc' = "after"
    /\ UNCHANGED toggleAtStart
    /\ TokenUnchanged /\ FormEnvUnchanged
    /\ FormFrame

\* restore / plain step: find the toggle with PUBLISH_TOGGLE; if found,
\* waitFor visible and click it.  restore has the click in a try block whose
\* catch goes to the JavaScript click; plain lets the error out
toggleStep_first ==
    /\ fmPc = "first"
    /\ toggleAtStart' = toggleOn
    /\ IF ~PublishToggleFound
         THEN fmPc' = "after" /\ NotActivated
         ELSE \E ok \in BOOLEAN :
                IF ok
                  THEN Activate /\ fmPc' = "second"
                  ELSE /\ NotActivated
                       /\ fmPc' = IF fmToggleVariant = "restore" THEN "alternative"
                                  ELSE "raised"
    /\ TokenUnchanged /\ FormEnvUnchanged
    /\ FormFrame

\* "Toggle back to original state": await publishToggle.click(...)
toggleStep_second ==
    /\ fmPc = "second"
    /\ \E ok \in BOOLEAN :
          IF ok
            THEN Activate /\ fmPc' = "after"
            ELSE /\ NotActivated
                 /\ fmPc' = IF fmToggleVariant = "restore" THEN "alternative"
                            ELSE "raised"
    /\ UNCHANGED toggleAtStart
    /\ TokenUnchanged /\ FormEnvUnchanged
    /\ FormFrame

\* catch (error) { try { await page.evaluate(() => {
\*   const checkbox = document.querySelector('input[type="checkbox"]');
\*   if (checkbox) checkbox.click(); }) } catch (jsError) { log } }
toggleStep_alternative ==
    /\ fmPc = "alternative"
    /\ \E ok \in BOOLEAN :
          IF checkboxFound /\ ok THEN Activate ELSE NotActivated
    /\ fmPc' = "after"
    /\ UNCHANGED toggleAtStart
    /\ TokenUnchanged /\ FormEnvUnchanged
    /\ FormFrame

\* the create-vault form as it opens
FormInit ==
    /\ SetupIdle
    /\ OpsIdle /\ ConnectIdle /\ GlobalIdle
    /\ PvdIdle
    /\ WalletIdle
    /\ TestIdle
    /\ ProviderIdle
    /\ LoadIdle
    /\ SortIdle
    /\ ListIdle /\ ShotsIdle
    /\ fmTokenVariant \in TokenVariants
    /\ fmToggleVariant \in ToggleVariants
    /\ fmPc = "idle"
    /\ token \in Tokens
    /\ tokenText = "none"
    /\ usdcFound \in BOOLEAN
    /\ wethFound \in BOOLEAN
    /\ tkDone = FALSE
    /\ toggleOn \in BOOLEAN
    /\ toggleAtStart = toggleOn
    /\ labelFound \in BOOLEAN
    /\ checkboxFound \in BOOLEAN
    /\ switchFound \in BOOLEAN
    /\ tgActivations = 0

FormNext ==
    \/ tokenStep_open
    \/ tokenStep_select
    \/ tokenStep_back
    \/ toggleStep_label
    \/ toggleStep_checkbox
    \/ toggleStep_switch
    \/ toggleStep_first
    \/ toggleStep_second
    \/ toggleStep_alternative

SpecForm == FormInit /\ [][FormNext]_vars

(***************************************************************************)
(* Scenario "wallet": setupWallet injects the provider, connects, verifies *)
(* and retries.  The page is the environment: whether it shows a wallet    *)
(* address and whose, and whether its header has other buttons.            *)
(***************************************************************************)
\* SELECTORS.WALLET_ADDRESS has nine entries
NWalletAddress == 9

ShownAddresses == {"none", "test", "other"}

\* does the first element matched by SELECTORS.WALLET_ADDRESS[k] exist and show
\*   1-2: [data-testid="wallet-address"], [class*="wallet-address"]: the
\*        address widget, whatever address it holds
\*   3-7: a button / span whose text has 0x1822...89ff, ...89ff, 1822, 89ff
\*   8-9: header / nav button:not(:has-text("Connect")): any such button,
\*        the address widget included
WalletAddressVisible(k, shown, headerButton) ==
    IF k <= 2 THEN shown # "none"
    ELSE IF k <= 7 THEN shown = "test"
    ELSE headerButton \/ shown # "none"

RetryAlways(isConnected) == TRUE

\* if (!isConnected) { retry }
ShouldRetry(isConnected) == isConnected = "false"

WalletFrame ==
    UNCHANGED <<setupVars, opVars, testVars, provVars, loadVars, sortVars, listVars,
                shotVars, formVars, pvdVars, globalVars, connectVars>>

\* setupWallet: await setupWalletConnection(page)  (addInitScript calls)
setupWallet_inject ==
    /\ swPc = "idle"
    /\ \E ok \in BOOLEAN : swPc' = IF ok THEN "connect" ELSE "raised"
    /\ UNCHANGED <<swRound, swConnectCalls, swVerify1, swVerify2, wvI, wvShown,
                   wvHeaderButton>>
    /\ WalletFrame

\* await connectWallet(page): button and provider clicks in try blocks, the
\* page.evaluate that sets selectedAddress, Escape, waitForTimeout; afterwards
\* the page may show the test address
setupWallet_connect ==
    /\ swPc = "connect"
    /\ swConnectCalls' = swConnectCalls + 1
    /\ \E ok \in BOOLEAN :
          IF ok
            THEN /\ swPc' = "evaluate"
                 /\ wvShown' \in {wvShown, "test"}
            ELSE /\ swPc' = "raised"
                 /\ UNCHANGED wvShown
    /\ UNCHANGED <<swRound, swVerify1, swVerify2, wvI, wvHeaderButton>>
    /\ WalletFrame

\* verifyWalletConnected: await page.evaluate(...) (outside the try block),
\* then let addressFound = false and the loop starts
verifyWalletConnected_evaluate ==
    /\ swPc = "evaluate"
    /\ \E ok \in BOOLEAN : swPc' = IF ok THEN "loop" ELSE "raised"
    /\ wvI' = 1
    /\ UNCHANGED <<swRound, swConnectCalls, swVerify1, swVerify2, wvShown,
                   wvHeaderButton>>
    /\ WalletFrame

\* verifyWalletConnected returned r to setupWallet: round 1 retries when
\* ShouldRetry, round 2 ignores the result; then 'Wallet setup complete'
Verified(r) ==
    IF swRound = 1
      THEN /\ swVerify1' = r
           /\ UNCHANGED swVerify2
           /\ IF ShouldRetry(r)
                THEN swPc' = "connect" /\ swRound' = 2
                ELSE swPc' = "done" /\ UNCHANGED swRound
      ELSE /\ swVerify2' = r
           /\ swPc' = "done"
           /\ UNCHANGED <<swVerify1, swRound>>

\* for (const selector of SELECTORS.WALLET_ADDRESS) {
\*   if (await addressElement.isVisible(...)) { textContent; addressFound = true; break } }
\* if (addressFound) return true; else { log; return false }
\* catch (error) { return false }
verifyWalletConnected_selector ==
    /\ swPc = "loop"
    /\ \E threw \in BOOLEAN :
          IF threw
            THEN Verified("false") /\ UNCHANGED wvI
            ELSE IF wvI > NWalletAddress
                   THEN Verified("false") /\ UNCHANGED wvI
                   ELSE IF WalletAddressVisible(wvI, wvShown, wvHeaderButton)
                          THEN Verified("true") /\ UNCHANGED wvI
                          ELSE /\ wvI' = wvI + 1
                               /\ UNCHANGED <<swPc, swRound, swVerify1, swVerify2>>
    /\ UNCHANGED <<swConnectCalls, wvShown, wvHeaderButton>>
    /\ WalletFrame

\* the page setupWallet is called on
WalletInit ==
    /\ SetupIdle
    /\ OpsIdle /\ ConnectIdle /\ GlobalIdle
    /\ PvdIdle
    /\ TestIdle
    /\ ProviderIdle
    /\ LoadIdle
    /\ SortIdle
    /\ ListIdle /\ ShotsIdle /\ FormIdle
    /\ swPc = "idle"
    /\ swRound = 1
    /\ swConnectCalls = 0
    /\ swVerify1 = "unset"
    /\ swVerify2 = "unset"
    /\ wvI = 1
    /\ wvShown \in ShownAddresses
    /\ wvHeaderButton \in BOOLEAN

WalletNext ==
    \/ setupWallet_inject
    \/ setupWallet_connect
    \/ verifyWalletConnected_evaluate
    \/ verifyWalletConnected_selector

SpecWallet == WalletInit /\ [][WalletNext]_vars

(***************************************************************************)
(* Scenario "details": processVaultDetails of vaults.spec.ts and the loop  *)
(* of the test that calls it for the first rows of the list.               *)
(***************************************************************************)
PvdFrame ==
    UNCHANGED <<setupVars, opVars, testVars, provVars, loadVars, sortVars, listVars,
                shotVars, formVars, walletVars, globalVars, connectVars>>

\* vaults.spec.ts 220: Math.min(3, vaultRows.length)
MaxProcessed == 3
\* vaults.spec.ts 269-278: selectors
NDetailAprSelectors == 8
\* vaults.spec.ts 298-307: performanceSelectors
NPerformanceSelectors == 8
\* vaults.spec.ts 338-346: sections
NSections == 7

\* rows the list is drawn with
MaxRows == 4

RowCounts == 0..MaxRows

Min(a, b) == IF a < b THEN a ELSE b

\* the call is over: it returned to the loop or its error reached the loop
PvdEnded == pvPc \in {"returned", "raised"}

\* vaults.spec.ts 220-221: for (i < Math.min(3, vaultRows.length)) await processVaultDetails
VaultsTestCalls ==
    /\ \/ pvPc = "idle" /\ pvIndex' = 0
       \/ pvPc = "returned" /\ pvIndex' = pvIndex + 1
    /\ pvIndex' < Min(MaxProcessed, pvRows)
    /\ pvPc' = "click"
    /\ pvI' = 1
    /\ pvWentBack' = FALSE
    /\ pvCheckRaised' = FALSE
    /\ pvChartFound' = FALSE
    /\ pvError' = "none"
    /\ UNCHANGED pvRows
    /\ PvdFrame

\* vaults.spec.ts 257: await clickableElement.click(), outside the try
processVaultDetails_click ==
    /\ pvPc = "click"
    /\ \E ok \in BOOLEAN :
          /\ pvPc' = IF ok THEN "load" ELSE "raised"
          /\ pvError' = IF ok THEN "none" ELSE "click"
    /\ UNCHANGED <<pvRows, pvIndex, pvI, pvWentBack, pvCheckRaised, pvChartFound>>
    /\ PvdFrame

\* vaults.spec.ts 260-264: waitForLoadState and page.screenshot, outside the try
processVaultDetails_load ==
    /\ pvPc = "load"
    /\ \E r \in {"none", "waitForLoadState", "screenshot"} :
          /\ pvPc' = IF r = "none" THEN "apr" ELSE "raised"
          /\ pvError' = r
    /\ pvI' = 1
    /\ UNCHANGED <<pvRows, pvIndex, pvWentBack, pvCheckRaised, pvChartFound>>
    /\ PvdFrame

\* vaults.spec.ts 282-289: one isVisible of the APR selector loop, inside the try;
\* an error goes to the catch of line 370 and from there to the finally
processVaultDetails_apr ==
    /\ pvPc = "apr"
    /\ \E r \in {"visible", "hidden", "raised"} :
          /\ pvCheckRaised' = (r = "raised")
          /\ pvPc' = CASE r = "raised" -> "goto"
                       [] r = "visible" \/ pvI = NDetailAprSelectors -> "chart"
                       [] OTHER -> "apr"
          /\ pvI' = IF r = "hidden" /\ pvI < NDetailAprSelectors THEN pvI + 1 ELSE 1
    /\ UNCHANGED <<pvRows, pvIndex, pvWentBack, pvChartFound, pvError>>
    /\ PvdFrame

\* vaults.spec.ts 311-318: one isVisible of the performance selector loop
processVaultDetails_chart ==
    /\ pvPc = "chart"
    /\ \E r \in {"visible", "hidden", "raised"} :
          /\ pvCheckRaised' = (r = "raised")
          /\ pvChartFound' = (r = "visible")
          /\ pvPc' = CASE r = "raised" -> "goto"
                       [] r = "visible" -> "sections"
                       [] pvI = NPerformanceSelectors -> "rechart"
                       [] OTHER -> "chart"
          /\ pvI' = IF r = "hidden" /\ pvI < NPerformanceSelectors THEN pvI + 1 ELSE 1
    /\ UNCHANGED <<pvRows, pvIndex, pvWentBack, pvError>>
    /\ PvdFrame

\* vaults.spec.ts 320-328: if (!chartFound) look for any recharts component
processVaultDetails_rechart ==
    /\ pvPc = "rechart"
    /\ \E r \in {"visible", "hidden", "raised"} :
          /\ pvCheckRaised' = (r = "raised")
          /\ pvChartFound' = (r = "visible")
          /\ pvPc' = IF r = "raised" THEN "goto" ELSE "sections"
    /\ pvI' = 1
    /\ UNCHANGED <<pvRows, pvIndex, pvWentBack, pvError>>
    /\ PvdFrame

\* vaults.spec.ts 348-357: one section, in its own try/catch
processVaultDetails_sections ==
    /\ pvPc = "sections"
    /\ \E r \in {"visible", "hidden", "raised"} :
          pvCheckRaised' = (pvCheckRaised \/ r = "raised")
    /\ pvPc' = IF pvI = NSections THEN "deposit" ELSE "sections"
    /\ pvI' = IF pvI = NSections THEN 1 ELSE pvI + 1
    /\ UNCHANGED <<pvRows, pvIndex, pvWentBack, pvChartFound, pvError>>
    /\ PvdFrame

\* vaults.spec.ts 360-369: the deposit button, in its own try/catch
processVaultDetails_deposit ==
    /\ pvPc = "deposit"
    /\ \E r \in {"visible", "hidden", "raised"} :
          pvCheckRaised' = (pvCheckRaised \/ r = "raised")
    /\ pvPc' = "goto"
    /\ UNCHANGED <<pvRows, pvIndex, pvI, pvWentBack, pvChartFound, pvError>>
    /\ PvdFrame

\* vaults.spec.ts 372-376: finally { await page.goto(VAULTS_URL);
\* await page.waitForLoadState('networkidle') }, neither of them guarded
processVaultDetails_goto ==
    /\ pvPc = "goto"
    /\ pvWentBack' = TRUE
    /\ \E r \in {"none", "goto", "waitForLoadState"} :
          /\ pvPc' = IF r = "none" THEN "resort" ELSE "raised"
          /\ pvError' = r
    /\ UNCHANGED <<pvRows, pvIndex, pvI, pvCheckRaised, pvChartFound>>
    /\ PvdFrame

\* vaults.spec.ts 379-387: the re-sort by APR, in its own try/catch
processVaultDetails_resort ==
    /\ pvPc = "resort"
    /\ pvPc' = "returned"
    /\ UNCHANGED <<pvRows, pvIndex, pvI, pvWentBack, pvCheckRaised, pvChartFound, pvError>>
    /\ PvdFrame

PvdInit ==
    /\ SetupIdle
    /\ OpsIdle
    /\ ConnectIdle
    /\ GlobalIdle
    /\ TestIdle
    /\ ProviderIdle
    /\ LoadIdle
    /\ SortIdle
    /\ ListIdle /\ ShotsIdle /\ FormIdle /\ WalletIdle
    /\ pvRows \in RowCounts
    /\ pvIndex = 0
    /\ pvPc = "idle"
    /\ pvI = 1
    /\ pvWentBack = FALSE
    /\ pvCheckRaised = FALSE
    /\ pvChartFound = FALSE
    /\ pvError = "none"

PvdNext ==
    \/ VaultsTestCalls
    \/ processVaultDetails_click
    \/ processVaultDetails_load
    \/ processVaultDetails_apr
    \/ processVaultDetails_chart
    \/ processVaultDetails_rechart
    \/ processVaultDetails_sections
    \/ processVaultDetails_deposit
    \/ processVaultDetails_goto
    \/ processVaultDetails_resort

SpecDetails == PvdInit /\ [][PvdNext]_vars

GlobalFrame ==
    UNCHANGED <<setupVars, opVars, testVars, provVars, loadVars, sortVars, listVars,
                shotVars, formVars, walletVars, pvdVars, connectVars>>

Callers == {"globalSetup", "test"}

\* globalSetup or the test has ended, normally or with an error
GsEnded == gsPc \in {"returned", "raised"}

\* part_009 12: const browser = await chromium.launch()
globalSetup_launch ==
    /\ gsCaller = "globalSetup" /\ gsPc = "idle"
    /\ \E ok \in BOOLEAN :
          /\ gsBrowser' = IF ok THEN "open" ELSE "none"
          /\ gsPc' = IF ok THEN "newPage" ELSE "raised"
          /\ gsError' = IF ok THEN "none" ELSE "launch"
    /\ UNCHANGED <<gsCaller, gsSetupFailed, gsConnect, gsAddress, gsSel, gsElapsed,
                   gsWaitExit>>
    /\ GlobalFrame

\* part_009 13: const page = await browser.newPage(), before the try; the new
\* page is blank: it shows no connect button and no address
globalSetup_newPage ==
    /\ gsPc = "newPage"
    /\ \E ok \in BOOLEAN :
          /\ gsPc' = IF ok THEN "inject" ELSE "raised"
          /\ gsError' = IF ok THEN "none" ELSE "newPage"
    /\ UNCHANGED <<gsCaller, gsBrowser, gsSetupFailed, gsConnect, gsAddress, gsSel,
                   gsElapsed, gsWaitExit>>
    /\ GlobalFrame

\* a test calls setupWalletConnection(page) on its page, which shows a connect
\* button under one of the selectors or none, and may show the address
TestCallsSetup ==
    /\ gsCaller = "test" /\ gsPc = "idle"
    /\ gsPc' = "inject"
    /\ UNCHANGED <<gsCaller, gsBrowser, gsError, gsSetupFailed, gsConnect, gsAddress,
                   gsSel, gsElapsed, gsWaitExit>>
    /\ GlobalFrame

\* part_009 48: await injectMockProvider(page), before the try of line 51
setupWalletConnection_inject ==
    /\ gsPc = "inject"
    /\ \E ok \in BOOLEAN : gsPc' = IF ok THEN "scan" ELSE "setupThrew"
    /\ gsSel' = 1
    /\ UNCHANGED <<gsCaller, gsBrowser, gsError, gsSetupFailed, gsConnect, gsAddress,
                   gsElapsed, gsWaitExit>>
    /\ GlobalFrame

\* part_009 65-80: one selector of the scan: isVisible, click; an error of
\* either is caught at 87 and rethrown as 'Failed to connect wallet'
setupWalletConnection_scan ==
    /\ gsPc = "scan"
    /\ IF gsSel > NConnectSelectors
         THEN gsPc' = "verify" /\ UNCHANGED gsSel
         ELSE \E ok \in BOOLEAN :
                 IF ~ok
                   THEN gsPc' = "setupThrew" /\ UNCHANGED gsSel
                   ELSE IF gsConnect = gsSel
                          THEN gsPc' = "dialog" /\ UNCHANGED gsSel
                          ELSE gsSel' = gsSel + 1 /\ UNCHANGED gsPc
    /\ UNCHANGED <<gsCaller, gsBrowser, gsError, gsSetupFailed, gsConnect, gsAddress,
                   gsElapsed, gsWaitExit>>
    /\ GlobalFrame

\* part_009 139-180: handleWalletConnectionDialog swallows its errors; the
\* application may react to the clicks by showing the address
setupWalletConnection_dialog ==
    /\ gsPc = "dialog"
    /\ \E a \in BOOLEAN : gsAddress' = (gsAddress \/ a)
    /\ gsElapsed' = 0
    /\ gsPc' = "wait"
    /\ UNCHANGED <<gsCaller, gsBrowser, gsError, gsSetupFailed, gsConnect, gsSel,
                   gsWaitExit>>
    /\ GlobalFrame

\* part_009 205: while (Date.now() - startTime < timeout)
WithinDeadline(elapsed) == elapsed < WaitDeadlineMs

\* a waitForWalletConnected whose catch passes the error on
WaitLeavesRethrow(exit) == IF exit = "caught" THEN "setupThrew" ELSE "waited"

\* part_009 188, 218-221: try { ... } catch (error) { console.warn(...) }:
\* where waitForWalletConnected goes when it leaves by the given exit
WaitLeaves(exit) == "waited"

\* part_009 205-217: one iteration of the loop of waitForWalletConnected:
\* the indicators are looked up, then page.waitForTimeout(500); an error of
\* isVisible or of waitForTimeout goes to the catch; the address may appear
\* during the sleep
waitForWalletConnected_poll ==
    /\ gsPc = "wait"
    /\ \E r \in {"ok", "raised"}, a \in BOOLEAN :
          LET exit == CASE ~WithinDeadline(gsElapsed) -> "deadline"
                        [] r = "raised" -> "caught"
                        [] gsAddress -> "found"
                        [] OTHER -> "none"
          IN  /\ gsWaitExit' = exit
              /\ gsPc' = IF exit = "none" THEN "wait" ELSE WaitLeaves(exit)
              /\ gsElapsed' = IF exit = "none" THEN gsElapsed + WaitPollMs ELSE gsElapsed
              /\ gsAddress' = IF exit = "none" THEN a ELSE gsAddress
    /\ UNCHANGED <<gsCaller, gsBrowser, gsError, gsSetupFailed, gsConnect, gsSel>>
    /\ GlobalFrame

\* part_009 77-78: console.log('Wallet connection completed'); return
setupWalletConnection_completed ==
    /\ gsPc = "waited"
    /\ gsPc' = "setupReturned"
    /\ UNCHANGED <<gsCaller, gsBrowser, gsError, gsSetupFailed, gsConnect, gsAddress,
                   gsSel, gsElapsed, gsWaitExit>>
    /\ GlobalFrame

\* part_009 86, 227-251: verifyWalletConnected returns whether or not it sees
\* the address; an error of its isVisible is caught at 87 and rethrown
setupWalletConnection_verify ==
    /\ gsPc = "verify"
    /\ \E ok \in BOOLEAN : gsPc' = IF ok THEN "setupReturned" ELSE "setupThrew"
    /\ UNCHANGED <<gsCaller, gsBrowser, gsError, gsSetupFailed, gsConnect, gsAddress,
                   gsSel, gsElapsed, gsWaitExit>>
    /\ GlobalFrame

\* part_009 15-22: try { await setupWalletConnection(page) } catch { log }:
\* globalSetup goes on to the finally; the test has no handler
AfterSetup ==
    /\ gsPc \in {"setupReturned", "setupThrew"}
    /\ gsSetupFailed' = (gsPc = "setupThrew")
    /\ IF gsCaller = "globalSetup"
         THEN gsPc' = "close" /\ UNCHANGED gsError
         ELSE IF gsPc = "setupThrew"
                THEN gsPc' = "raised" /\ gsError' = "setup"
                ELSE gsPc' = "returned" /\ UNCHANGED gsError
    /\ UNCHANGED <<gsCaller, gsBrowser, gsConnect, gsAddress, gsSel, gsElapsed,
                   gsWaitExit>>
    /\ GlobalFrame

\* part_009 22-27: finally { await browser.close() }
globalSetup_close ==
    /\ gsPc = "close"
    /\ \E ok \in BOOLEAN :
          /\ gsBrowser' = IF ok THEN "closed" ELSE gsBrowser
          /\ gsPc' = IF ok THEN "returned" ELSE "raised"
          /\ gsError' = IF ok THEN "none" ELSE "close"
    /\ UNCHANGED <<gsCaller, gsSetupFailed, gsConnect, gsAddress, gsSel, gsElapsed,
                   gsWaitExit>>
    /\ GlobalFrame

GlobalInit ==
    /\ SetupIdle
    /\ OpsIdle
    /\ ConnectIdle
    /\ TestIdle
    /\ ProviderIdle
    /\ LoadIdle
    /\ SortIdle
    /\ ListIdle /\ ShotsIdle /\ FormIdle /\ WalletIdle /\ PvdIdle
    /\ gsCaller \in Callers
    /\ gsPc = "idle"
    /\ gsBrowser = "none"
    /\ gsError = "none"
    /\ gsSetupFailed = FALSE
    /\ gsConnect \in IF gsCaller = "test" THEN 0..NConnectSelectors ELSE {0}
    /\ gsAddress \in IF gsCaller = "test" THEN BOOLEAN ELSE {FALSE}
    /\ gsSel = 1
    /\ gsElapsed = 0
    /\ gsWaitExit = "none"

GlobalNext ==
    \/ globalSetup_launch
    \/ globalSetup_newPage
    \/ TestCallsSetup
    \/ setupWalletConnection_inject
    \/ setupWalletConnection_scan
    \/ setupWalletConnection_dialog
    \/ waitForWalletConnected_poll
    \/ setupWalletConnection_completed
    \/ setupWalletConnection_verify
    \/ AfterSetup
    \/ globalSetup_close

SpecGlobal == GlobalInit /\ [][GlobalNext]_vars

\* the scheduler runs the pending continuation of waitForWalletConnected
SpecGlobalFair == SpecGlobal /\ WF_vars(waitForWalletConnected_poll)

ConnectFrame ==
    UNCHANGED <<setupVars, opVars, testVars, provVars, loadVars, sortVars, listVars,
                shotVars, formVars, walletVars, pvdVars, globalVars>>

ConnectVariants == {"injection", "button"}

\* SELECTORS.CONNECT_WALLET_BUTTON, SELECTORS.WALLET_PROVIDERS.METAMASK
NConnectWalletButton == 8
NWalletProviders == 7

\* the page's part that connectWallet does not write
CwPage == <<cwVariant, cwButton, cwProvider, cwAnyOption, cwHasEthereum>>

\* a test calls connectWallet(page)
ConnectWalletCalled ==
    /\ cwPc = "idle"
    /\ cwPc' = IF cwVariant = "injection" THEN "button" ELSE "shot"
    /\ UNCHANGED <<cwI, cwSelected, cwShown, cwFound, cwClicks, cwCaught,
                   cwIsConnected, cwVerified, cwOutcome, CwPage>>
    /\ ConnectFrame

(****************** connectWallet, injection (398-528) *********************)
\* 402-422: one selector of the Connect Wallet loop: isVisible, click; an
\* error of either goes to the catch of 419, which logs and goes on
connectWallet_button ==
    /\ cwPc = "button"
    /\ IF cwI > NConnectWalletButton
         THEN /\ cwPc' = "menu" /\ cwI' = 1
              /\ UNCHANGED <<cwFound, cwClicks, cwCaught>>
         ELSE \E ok \in BOOLEAN :
                 IF cwButton = cwI
                   THEN /\ cwPc' = "menu" /\ cwI' = 1
                        /\ cwFound' = cwI
                        /\ cwClicks' = IF ok THEN cwClicks + 1 ELSE cwClicks
                        /\ cwCaught' = (cwCaught \/ ~ok)
                   ELSE /\ cwPc' = IF ok THEN "button" ELSE "menu"
                        /\ cwI' = IF ok THEN cwI + 1 ELSE 1
                        /\ cwCaught' = (cwCaught \/ ~ok)
                        /\ UNCHANGED <<cwFound, cwClicks>>
    /\ UNCHANGED <<cwSelected, cwShown, cwIsConnected, cwVerified, cwOutcome, CwPage>>
    /\ ConnectFrame

\* 425-448: waitForTimeout, then one selector of the provider loop: isVisible,
\* click, waitForTimeout; an error goes to the catch of 467
connectWallet_menu ==
    /\ cwPc = "menu"
    /\ IF cwI > NWalletProviders
         THEN /\ cwPc' = "fallback" /\ cwI' = 1
              /\ UNCHANGED <<cwClicks, cwCaught>>
         ELSE \E ok \in BOOLEAN :
                 IF cwProvider = cwI
                   THEN /\ cwPc' = "evaluate" /\ cwI' = 1
                        /\ cwClicks' = IF ok THEN cwClicks + 1 ELSE cwClicks
                        /\ cwCaught' = (cwCaught \/ ~ok)
                   ELSE /\ cwPc' = IF ok THEN "menu" ELSE "evaluate"
                        /\ cwI' = IF ok THEN cwI + 1 ELSE 1
                        /\ cwCaught' = (cwCaught \/ ~ok)
                        /\ UNCHANGED cwClicks
    /\ UNCHANGED <<cwSelected, cwShown, cwFound, cwIsConnected, cwVerified, cwOutcome,
                   CwPage>>
    /\ ConnectFrame

\* 451-466: if (!providerFound) click any visible option that looks like one
connectWallet_fallback ==
    /\ cwPc = "fallback"
    /\ \E ok \in BOOLEAN :
          /\ cwClicks' = IF cwAnyOption /\ ok THEN cwClicks + 1 ELSE cwClicks
          /\ cwCaught' = (cwCaught \/ ~ok)
    /\ cwPc' = "evaluate"
    /\ UNCHANGED <<cwI, cwSelected, cwShown, cwFound, cwIsConnected, cwVerified,
                   cwOutcome, CwPage>>
    /\ ConnectFrame

\* an evaluate block that leaves the provider as it found it
EvaluateSkips(hasEthereum, selected) == selected

\* 476-478: if (window.ethereum) window.ethereum.selectedAddress = address
EvaluateSelected(hasEthereum, selected) ==
    IF hasEthereum THEN TEST_WALLET_ADDRESS ELSE selected

\* 473-516: await page.evaluate(...), not inside a try; the application may
\* show the address once its callbacks were notified
connectWallet_evaluate ==
    /\ cwPc = "evaluate"
    /\ \/ /\ cwSelected' = EvaluateSelected(cwHasEthereum, cwSelected)
          /\ \E a \in BOOLEAN : cwShown' = (cwShown \/ (cwHasEthereum /\ a))
          /\ cwPc' = "escape"
          /\ UNCHANGED cwOutcome
       \/ /\ cwPc' = "ended"
          /\ cwOutcome' = "page.evaluate"
          /\ UNCHANGED <<cwSelected, cwShown>>
    /\ UNCHANGED <<cwI, cwFound, cwClicks, cwCaught, cwIsConnected, cwVerified, CwPage>>
    /\ ConnectFrame

\* 518-527: try { keyboard.press('Escape') } catch { log };
\* await page.waitForTimeout(TIMEOUTS.RENDER), not inside a try
connectWallet_escape ==
    /\ cwPc = "escape"
    /\ \E ok \in BOOLEAN : cwOutcome' = IF ok THEN "returned" ELSE "page.waitForTimeout"
    /\ cwPc' = "ended"
    /\ UNCHANGED <<cwI, cwSelected, cwShown, cwFound, cwClicks, cwCaught, cwIsConnected,
                   cwVerified, CwPage>>
    /\ ConnectFrame

(******************** connectWallet, button (125-186) **********************)
\* 182-185: catch (error) { throw new Error(`Failed to connect wallet: ${error}`) }
FailedToConnect == "Failed to connect wallet"

\* 130: await takeScreenshot(page, 'before-wallet-connection'), inside the try
connectWallet_shot ==
    /\ cwPc = "shot"
    /\ \E ok \in BOOLEAN :
          /\ cwPc' = IF ok THEN "scan" ELSE "ended"
          /\ cwOutcome' = IF ok THEN cwOutcome ELSE FailedToConnect
    /\ cwI' = 1
    /\ UNCHANGED <<cwSelected, cwShown, cwFound, cwClicks, cwCaught, cwIsConnected,
                   cwVerified, CwPage>>
    /\ ConnectFrame

\* 136-147: one selector of the loop; an error of isVisible is caught inside
\* the loop and the next selector is tried
connectWallet_scan ==
    /\ cwPc = "scan"
    /\ IF cwI > NConnectWalletButton
         THEN /\ cwPc' = "check"
              /\ UNCHANGED <<cwI, cwFound, cwCaught>>
         ELSE \E ok \in BOOLEAN :
                 IF cwButton = cwI /\ ok
                   THEN /\ cwFound' = cwI
                        /\ cwPc' = "click"
                        /\ UNCHANGED <<cwI, cwCaught>>
                   ELSE /\ cwI' = cwI + 1
                        /\ cwCaught' = (cwCaught \/ ~ok)
                        /\ UNCHANGED <<cwPc, cwFound>>
    /\ UNCHANGED <<cwSelected, cwShown, cwClicks, cwIsConnected, cwVerified, cwOutcome,
                   CwPage>>
    /\ ConnectFrame

\* 191-215: isWalletConnected: an indicator is visible; an error gives false
isWalletConnected_page(shown, raised) == shown /\ ~raised

\* a check that returns whatever isWalletConnected answered
AfterNoButtonLenient(isConnected) == "returned"

\* 153-158: if (isConnected) return; else throw (rethrown at 184)
AfterNoButton(isConnected) == IF isConnected THEN "returned" ELSE FailedToConnect

\* 150-159: if (!connectWalletButton) { isConnected = await isWalletConnected(page) ... }
connectWallet_check ==
    /\ cwPc = "check"
    /\ \E raised \in BOOLEAN :
          LET isConnected == isWalletConnected_page(cwShown, raised) IN
          /\ cwIsConnected' = IF isConnected THEN "true" ELSE "false"
          /\ cwOutcome' = AfterNoButton(isConnected)
    /\ cwPc' = "ended"
    /\ UNCHANGED <<cwI, cwSelected, cwShown, cwFound, cwClicks, cwCaught, cwVerified,
                   CwPage>>
    /\ ConnectFrame

\* 163-177: await connectWalletButton.click(); the MetaMask option in its own
\* try; takeScreenshot; the application may show the address after the click
connectWallet_click ==
    /\ cwPc = "click"
    /\ \E ok \in BOOLEAN, option \in BOOLEAN, a \in BOOLEAN :
          /\ cwClicks' = IF ok THEN cwClicks + 1 + (IF option THEN 1 ELSE 0)
                         ELSE cwClicks
          /\ cwShown' = (cwShown \/ (ok /\ a))
          /\ cwPc' = IF ok THEN "verify" ELSE "ended"
          /\ cwOutcome' = IF ok THEN cwOutcome ELSE FailedToConnect
    /\ UNCHANGED <<cwI, cwSelected, cwFound, cwCaught, cwIsConnected, cwVerified, CwPage>>
    /\ ConnectFrame

\* 220-264: verifyWalletConnected passes when the address element is visible
\* within the timeout, and throws otherwise
verifyWalletConnected_passes(shown, raised) == shown /\ ~raised

\* 180-185: await verifyWalletConnected(page); its error is rethrown at 184
connectWallet_verify ==
    /\ cwPc = "verify"
    /\ \E raised \in BOOLEAN :
          LET passed == verifyWalletConnected_passes(cwShown, raised) IN
          /\ cwVerified' = passed
          /\ cwOutcome' = IF passed THEN "returned" ELSE FailedToConnect
    /\ cwPc' = "ended"
    /\ UNCHANGED <<cwI, cwSelected, cwShown, cwFound, cwClicks, cwCaught, cwIsConnected,
                   CwPage>>
    /\ ConnectFrame

ConnectInit ==
    /\ SetupIdle /\ OpsIdle /\ TestIdle /\ ProviderIdle /\ LoadIdle /\ SortIdle
    /\ ListIdle /\ ShotsIdle /\ FormIdle /\ WalletIdle /\ PvdIdle /\ GlobalIdle
    /\ cwVariant \in ConnectVariants
    /\ cwPc = "idle"
    /\ cwI = 1
    /\ cwButton \in 0..NConnectWalletButton
    /\ cwProvider \in IF cwVariant = "injection" THEN 0..NWalletProviders ELSE {0}
    /\ cwAnyOption \in IF cwVariant = "injection" THEN BOOLEAN ELSE {FALSE}
    /\ cwHasEthereum \in BOOLEAN
    /\ cwSelected \in IF cwHasEthereum THEN {"", TEST_WALLET_ADDRESS} ELSE {""}
    /\ cwShown \in BOOLEAN
    /\ cwFound = 0
    /\ cwClicks = 0
    /\ cwCaught = FALSE
    /\ cwIsConnected = "unset"
    /\ cwVerified = FALSE
    /\ cwOutcome = "none"

ConnectNext ==
    \/ ConnectWalletCalled
    \/ connectWallet_button
    \/ connectWallet_menu
    \/ connectWallet_fallback
    \/ connectWallet_evaluate
    \/ connectWallet_escape
    \/ connectWallet_shot
    \/ connectWallet_scan
    \/ connectWallet_check
    \/ connectWallet_click
    \/ connectWallet_verify

SpecConnect == ConnectInit /\ [][ConnectNext]_vars

SetupNext ==
    \/ BeforeAll
    \/ BeforeEach
    \/ SwcCheckFlag
    \/ injectMockProvider
    \/ SwcGoto
    \/ SwcShotBefore
    \/ SwcScan
    \/ handleWalletConnectionDialog
    \/ waitForWalletConnected
    \/ SwcMarkConnected
    \/ SwcShotAfter
    \/ SwcVerify
    \/ SwcReturn
    \/ SwcThrow

SetupInit ==
    /\ SetupIdle
    /\ OpsIdle
    /\ ConnectIdle
    /\ GlobalIdle
    /\ PvdIdle
    /\ WalletIdle
    /\ FormIdle
    /\ ShotsIdle
    /\ ListIdle
    /\ TestIdle
    /\ ProviderIdle
    /\ LoadIdle
    /\ SortIdle

SpecSetup == SetupInit /\ [][SetupNext]_vars

\* C2: at most one page-object verification operation is in progress on the
\* page at any time, also when a step was ended by its timeout fallback.
C2_OneVerificationAtATime ==
    Cardinality({op \in VerifyOps : Running(op)}) <= 1

\* C7: an operation called on a page that is already closed issues no page
\* action at all and returns normally.
C7_ClosedPageCallIsNoOp ==
    \A op \in Ops : closedAtCall[op] => (~issued[op] /\ opPc[op] = "done")

\* verifyDepositWithdraw and waitForDetailPageLoad were both called on a closed page
C7_CalledOnClosedPage ==
    /\ closedAtCall["verifyDepositWithdraw"] /\ opPc["verifyDepositWithdraw"] = "done"
    /\ closedAtCall["waitForDetailPageLoad"] /\ opPc["waitForDetailPageLoad"] = "done"

\* C8: takeScreenshot never raises: on a closed page it captures nothing and
\* returns, and when the capture fails it logs a warning and returns.
C8_TakeScreenshotNeverRaises ==
    /\ ~lastShot.raised
    /\ lastShot.closed => (~lastShot.attempted /\ ~lastShot.captured)
    /\ lastShot.failed => (lastShot.warned /\ ~lastShot.captured)

\* a capture that was attempted and failed
C8_CaptureFailed ==
    lastShot.attempted /\ lastShot.failed

\* C3: after any sequence of calls, request returns the one-element list of
\* the test address for eth_requestAccounts and eth_accounts, and null for
\* every other method name.
C3_NullForEveryOtherMethod ==
    lastMethod # "none" =>
        IF lastMethod \in AccountMethods
          THEN lastResult = AccountsResult(<<TEST_WALLET_ADDRESS>>)
          ELSE lastResult = NullResult

\* C3 as amended: the account list for the two account methods; for every
\* other method null, except that the stateful provider answers eth_chainId
\* with the string '0x1'.
C3_AccountsForTwoMethods ==
    lastMethod # "none" =>
        IF lastMethod \in AccountMethods
          THEN lastResult = AccountsResult(<<TEST_WALLET_ADDRESS>>)
          ELSE IF lastMethod = "eth_chainId" /\ provKind = "stateful"
                 THEN lastResult = TextResult("0x1")
                 ELSE lastResult = NullResult

\* the stateful provider answered an account request as its first call ever
\* touching selectedAddress, after callbacks had been registered
C3_AccountsRequested ==
    /\ provKind = "stateful"
    /\ lastMethod = "eth_accounts"
    /\ Len(walletCallbacks) > 0
    /\ lastResult.kind = "accounts"

\* C4: if whitelist verification is required and no wallet is ever connected,
\* verifyWalletWhitelist returns false and the test is skipped.
C4_NoWalletMeansSkipped ==
    (requiresRealWallet /\ ~everConnected /\ whitelistVerified # "unset") =>
        /\ whitelistVerified = "false"
        /\ ltPc = "done" => ltOutcome = "skipped"

\* C5: the test 'should load vaults page and verify UI elements' fails
\* whenever the shortened wallet address is not present on the page, so it
\* never passes on such a page.
C5_PassedMeansAddressDisplayed ==
    ltOutcome = "passed" => addressDisplayed

\* C6: in the comparison test, loop iteration i opens the i-th vault of the
\* list (counting rows from 1, iteration i = 0 opens row 1).
C6_IterationOpensItsVault ==
    \A k \in 1..Len(cmpOpened) : cmpOpened[k].position = cmpOpened[k].index + 1

\* position of the first visible APR header selector, 0 when none is visible
FirstVisibleHeader ==
    IF \E i \in 1..NAprHeader : aprVisible[i]
      THEN CHOOSE i \in 1..NAprHeader :
              aprVisible[i] /\ \A j \in 1..(i - 1) : ~aprVisible[j]
      ELSE 0

\* C9: a completed sortByAPR has clicked exactly twice on the first visible
\* APR_HEADER selector, waiting after each click, and on no later selector;
\* with no visible selector it has clicked nothing.
C9_TwoClicksOnFirstVisibleHeader ==
    sbPc = "done" =>
        IF FirstVisibleHeader = 0
          THEN sbClicks = <<>> /\ sbWaits = 0
          ELSE sbClicks = <<FirstVisibleHeader, FirstVisibleHeader>> /\ sbWaits = 2

\* C10: after sortByAPR completes with a visible header, the vault list is
\* shown in descending APR order, whatever order it was in before the call.
C10_SortedDescendingAfterSort ==
    (sbPc = "done" /\ FirstVisibleHeader # 0) =>
        IsDescending(Display(vaultAprs, sortState))

\* C1: whenever setupWalletConnection(page) has returned normally, the mock
\* provider init script is registered on that same page (every page, every
\* call order, also the test page handled after the beforeAll call).
C1_InitScriptOnEveryReturnedPage ==
    \A p \in returnedFor : initScript[p]

\* the beforeAll call completed and registered the script on its own page
C1_BeforeAllInjected ==
    /\ hook = "beforeEach"
    /\ "setupPage" \in returnedFor
    /\ initScript["setupPage"]
\* the earliest selector of vaultSelectors that matches an element, 0 if none
EarliestMatching ==
    IF \E k \in 1..NVaultSelectors : vlMatches[k] > 0
      THEN CHOOSE k \in 1..NVaultSelectors :
              vlMatches[k] > 0 /\ \A j \in 1..(k - 1) : vlMatches[j] = 0
      ELSE 0

\* C11: a finished findFirstVault has returned the first element matched by
\* the earliest selector that matches anything, has consulted the selectors
\* up to that one and none after it, and has returned null exactly when no
\* selector matches any element.
C11_FallbackChain ==
    ffPc = "done" =>
        IF EarliestMatching = 0
          THEN /\ ffResult = NullVault
               /\ ffConsulted = [k \in 1..NVaultSelectors |-> k]
          ELSE /\ ffResult = [selector |-> EarliestMatching, element |-> 1]
               /\ ffConsulted = [k \in 1..EarliestMatching |-> k]

\* findFirstVault fell back past two selectors that matched nothing to a
\* third that matches two elements
C11_FellBackToThird ==
    /\ ffPc = "done"
    /\ vlMatches[1] = 0 /\ vlMatches[2] = 0 /\ vlMatches[3] = 2
    /\ vlMatches[4] > 0
    /\ ffResult.selector = 3

\* C16: clickFirstDepositButton never clicks the Deposit button of a private
\* vault; for a private vault it only verifies that the button is disabled.
C16_PrivateVaultNeverClicked ==
    (vlType = "private" /\ ffResult # NullVault) => ~cdClicked

\* C12: every screenshot taken during a run is still in the screenshots
\* directory afterwards: there are as many files as captures, none was
\* overwritten by a later takeScreenshot call.
C12_NoScreenshotOverwritten == Cardinality(shFiles) = shTaken

\* C13: once the principal-token step of the create-vault test has completed,
\* the selected principal token is WETH, whichever token was selected when
\* the form opened.
C13_TokenIsWethAfterStep == tkDone => token = "WETH"

\* C14: after the publish-toggle step (the click-and-click-back variants) the
\* toggle is in the state it had before the step, whichever clicks inside the
\* step succeeded or failed.
C14_ToggleRestored ==
    (fmPc = "after" /\ fmToggleVariant \in {"restore", "plain"}) =>
        toggleOn = toggleAtStart

\* C15: in the three-approach publish-toggle step the checkbox click and the
\* switch-container click are fallbacks, so the step activates the toggle at
\* most once.
C15_AtMostOneActivation ==
    fmToggleVariant = "three" => tgActivations <= 1

\* C17: setupWallet calls connectWallet at most twice, the second time
\* exactly when the first verifyWalletConnected returned false, and it
\* completes normally whatever the second verification reports.
C17_RetriesAtMostOnce ==
    /\ swConnectCalls <= 2
    /\ swConnectCalls = 2 => swVerify1 = "false"
    /\ swPc = "done" => swConnectCalls = (IF swVerify1 = "false" THEN 2 ELSE 1)
    /\ swVerify2 # "unset" => swPc = "done"

\* setupWallet completed although both verifications reported not connected
C17_CompletedUnverified ==
    /\ swPc = "done"
    /\ swVerify1 = "false"
    /\ swVerify2 = "false"
    /\ swConnectCalls = 2

\* C18: verifyWalletConnected returns true only if the test wallet address
\* is displayed in the UI; a page that shows no wallet address never makes it
\* return true.
C18_TrueOnlyIfTestAddressShown ==
    /\ swVerify1 = "true" => wvShown = "test"
    /\ swVerify2 = "true" => wvShown = "test"

\* C19: the module-level flag isWalletConnected is true only if a wallet
\* address indicator was observed visible on a page (it was never set while
\* none was visible).
C19_FlagMeansAddressObserved == isWalletConnected => ~flagSeen

\* C20: every call of processVaultDetails that has ended issued
\* page.goto(VAULTS_URL) before it ended, whether the click and the detail checks
\* succeeded or raised, and a detail check that raised is not what ended the call.
C20_AlwaysBackToList ==
    PvdEnded =>
        /\ pvWentBack
        /\ pvCheckRaised => pvError \in {"none", "goto", "waitForLoadState"}

\* C21: whenever globalSetup has ended, the browser it launched is closed,
\* and when setupWalletConnection failed in it, it ended normally.
C21_BrowserClosedWhenEnded ==
    gsCaller = "globalSetup" /\ GsEnded =>
        /\ gsBrowser \in {"none", "closed"}
        /\ gsSetupFailed => gsPc = "returned"

\* C27: waitForWalletConnected always terminates and never raises: a step
\* of it leads nowhere but to its own loop or to its normal return, it returns
\* at once when an address indicator is visible, an exit without a visible
\* indicator and without a caught error happens only once the 10 s deadline
\* has passed, and every call that is waiting does return.
C27_WaitAlwaysReturns ==
    /\ [][gsPc = "wait" => gsPc' \in {"wait", "waited"}]_vars
    /\ [][gsPc = "wait" /\ gsAddress => gsPc' = "waited"]_vars
    /\ [](gsWaitExit = "deadline" => gsElapsed >= WaitDeadlineMs)
    /\ (gsPc = "wait" ~> gsPc = "waited")

C27_ReturnedAtDeadline ==
    gsPc = "waited" /\ gsWaitExit = "deadline" /\ ~gsAddress

\* C22: in the vault detail test, a detail-page operation issues page actions
\* only when the click on the vault element succeeded.
C22_DetailStepsOnlyAfterClick ==
    (\E op \in Ops : issued[op]) => clickOk

\* C23: no VaultDetailPage operation issues a page action on a closed page,
\* wherever in the operation the page closed.
C23_NoActionOnClosedPage ==
    \A op \in Ops : ~issuedOnClosed[op]

\* C24: one connectWallet call notifies each accountsChanged callback once
\* for each time it is registered.
C24_EachCallbackNotifiedOnce ==
    lastCall.op = "connectWallet" =>
        \A cb \in CallbackIds : delivered[cb] = Occurrences(lastCall.before, cb)

\* the list without the earliest occurrence of x, the list itself when x is absent
RECURSIVE RemoveFirst(_, _)
RemoveFirst(s, x) ==
    IF s = <<>> THEN <<>>
    ELSE IF Head(s) = x THEN Tail(s)
    ELSE <<Head(s)>> \o RemoveFirst(Tail(s), x)

\* the callback list a call of on or removeListener is to leave behind
ExpectedCallbacks(call) ==
    IF provKind = "stateful" /\ call.event = "accountsChanged"
      THEN IF call.op = "on"
             THEN call.before \o <<call.callback>>
             ELSE RemoveFirst(call.before, call.callback)
      ELSE call.before

\* C25: a call of on for accountsChanged appends its callback to the list, a
\* call of removeListener for accountsChanged takes the earliest occurrence
\* of its callback out and leaves a list without that callback alone, and
\* calls for any other event leave the list as it was.
C25_CallbackListFollowsCalls ==
    lastCall.op \in {"on", "removeListener"} =>
        walletCallbacks = ExpectedCallbacks(lastCall)

C25_EarliestOfTwoRemoved ==
    /\ lastCall = CallOf("removeListener", "accountsChanged", "cb1",
                         <<"cb1", "cb2", "cb1">>)
    /\ walletCallbacks = <<"cb2", "cb1">>

C28_ConnectWalletInjects ==
    cwVariant = "injection" /\ cwPc = "ended" =>
        /\ cwOutcome \in {"returned", "page.evaluate", "page.waitForTimeout"}
        /\ cwOutcome = "returned" /\ cwHasEthereum => cwSelected = TEST_WALLET_ADDRESS

C28_ReturnedAfterFailedClick ==
    /\ cwVariant = "injection" /\ cwPc = "ended" /\ cwOutcome = "returned"
    /\ cwButton # 0 /\ cwFound = cwButton /\ cwClicks = 0 /\ cwCaught
    /\ cwHasEthereum /\ cwSelected = TEST_WALLET_ADDRESS

\* C29: the button connectWallet that saw no Connect Wallet button has
\* returned without a click when isWalletConnected answered true and has
\* otherwise failed with 'Failed to connect wallet'; and when it has returned
\* after a click, verifyWalletConnected has passed.
C29_ConnectWalletVerifies ==
    cwVariant = "button" /\ cwPc = "ended" =>
        /\ cwFound = 0 =>
              IF cwIsConnected = "true"
                THEN cwOutcome = "returned" /\ cwClicks = 0
                ELSE cwOutcome = FailedToConnect
        /\ cwOutcome = "returned" /\ cwClicks > 0 => cwVerified

C29_AlreadyConnectedNoClick ==
    /\ cwVariant = "button" /\ cwPc = "ended" /\ cwButton = 0
    /\ cwIsConnected = "true" /\ cwOutcome = "returned" /\ cwClicks = 0

====
